---- MODULE Spec2Model ----
(***************************************************************************)
(* The DICOMDIR -> NIfTI pipeline of conversor.py as a state machine: the  *)
(* checkpoint file (progress.json), the local staging directories and      *)
(* NIfTI files, the remote destination, the main thread of run(), the      *)
(* download and conversion worker threads, the interrupt handler, and a    *)
(* process kill followed by a restart; and, after it, the sequential       *)
(* pipeline of config.py.                                                  *)
(***************************************************************************)
EXTENDS Integers, Sequences, FiniteSets, TLC

(***************************************************************************)
(* Inputs: the remote studies and what parse_dicomdir finds in each.       *)
(***************************************************************************)
Units == {"u1", "u2", "u3"}

\* default of processing.min_slices
MIN_SLICES == 10
\* defaults of processing.download_threads and processing.conversion_threads
DEFAULT_DOWNLOAD_THREADS == 2
DEFAULT_CONVERSION_THREADS == 2

\* how many I/O exceptions (disk full, ...) save_progress may meet in all
MaxIOFail == 2

\* the SeriesInstanceUIDs of a study, in the order parse_dicomdir meets them
SeriesUIDs(u) ==
    IF u = "u1" THEN <<"s1", "s2", "s3">> ELSE IF u = "u2" THEN <<"s1">> ELSE <<"s3">>

\* number of CT/MR image files parse_dicomdir collects for a series
NumFiles(u, s) == IF s = "s3" THEN 3 ELSE 12

\* every series kept whatever its number of files
C22_EverySeries(u) == SeriesUIDs(u)

\* series.items() filtered by len(files) >= MIN_SLICES, in dict order
valid_series(u) == SelectSeq(SeriesUIDs(u), LAMBDA s : NumFiles(u, s) >= MIN_SLICES)

SeqToSet(q) == {q[i] : i \in 1..Len(q)}

\* nifti_filename = f"{item}_{uid}.nii.gz", kept as the pair it is built from
nifti_filename(u, s) == <<u, s>>

\* the names a file of LOCAL_NIFTI or GDRIVE_NIFTI can have: one for every
\* series of every unit
Artifacts == UNION {{nifti_filename(u, s) : s \in SeqToSet(SeriesUIDs(u))} : u \in Units}

\* the artifact names of the retained series of a unit
ArtifactsOf(u) == {nifti_filename(u, s) : s \in SeqToSet(valid_series(u))}

None == "None"
NoItem == ""
NoArt == <<"", "">>

\* thread names: Download-1.., Conversion-1.., the main thread, and the
\* handler invocation that runs on top of the main thread
DName(i) == <<"D", i>>
CName(i) == <<"C", i>>
AllD == {DName(i) : i \in 1..DEFAULT_DOWNLOAD_THREADS}
AllC == {CName(i) : i \in 1..DEFAULT_CONVERSION_THREADS}
MainT == <<"main", 0>>
HandlerT == <<"handler", 0>>
NoThread == <<"", 0>>
Threads == {MainT, HandlerT} \cup AllD \cup AllC

\* the record load_progress returns when there is no (readable) file; the
\* "uploaded" list is never written to by conversor.py and is left out
EmptyProgress == [downloaded |-> {}, converted |-> {}, uploaded_files |-> {}]

FileVal(st, r) == [st |-> st, rec |-> r]
Absent == FileVal("absent", EmptyProgress)
\* a file that json.load rejects: empty, truncated, or with trailing bytes
Corrupt == FileVal("corrupt", EmptyProgress)

\* r holds everything s holds
Includes(r, s) ==
    /\ s.downloaded \subseteq r.downloaded
    /\ s.converted \subseteq r.converted
    /\ s.uploaded_files \subseteq r.uploaded_files

VARIABLES
    progress,     \* the in-memory progress dict of run()
    file,         \* PROGRESS_FILE on disk
    tmp,          \* PROGRESS_FILE + ".tmp" on disk
    dicom,        \* LOCAL_DICOM/<unit>: "absent", "empty", "partial", "full"
    nifti,        \* LOCAL_NIFTI/<artifact>: "absent", "partial", "complete"
    remote,       \* GDRIVE_NIFTI/<artifact>: "absent", "partial", "complete"
    listing,      \* what list_dicomdirs returns
    config,       \* CONFIG["processing"]: download_threads, conversion_threads
    faults,       \* what this environment does: "kill", "signal", "io"
    mainpc,       \* where the main thread is in run(); "off": no process
    rec_todo,     \* local_nifti_files still to visit in the recovery loop
    rec_cur,      \* filename of the current iteration of the recovery loop
    q_download,   \* queue.Queue of units to fetch
    q_convert,    \* queue.Queue of units to convert
    unfD,         \* q_download.unfinished_tasks
    unfC,         \* q_convert.unfinished_tasks
    dpc, ditem,   \* download workers: position, item
    cpc, citem,   \* conversion workers: position, item
    cser,         \* conversion workers: valid series still to iterate
    csp,          \* conversion workers: series_processed
    cok,          \* conversion workers: conversion_successful
    lock,         \* holder of progress_lock, NoThread when free
    spc,          \* per thread: position inside save_progress, "none" outside
    hpc,          \* the interrupt handler's position, "idle" before a signal
    snapshot,     \* progress_snapshot of the handler
    iofail,       \* I/O exceptions met so far
    run_failed,   \* history: this process logged a failed transfer or conversion
    last,         \* history: whether the previous process returned from run()
                  \* without such a failure, and the record it left
    seq_pc,       \* config.py: where its sequential run() is; "off": no process
    seq_todo,     \* config.py: the dicomdirs the for loop of run() has yet to visit
    shutdown_in_progress,  \* run(): the flag and the count of the interrupt handler
    active_processes,      \* the module's registry of rclone subprocesses
    active_processes_lock, \* "free", or its holder: "handler" for signal_handler,
                           \* "main" for rclone() called by run()
    procs,        \* the external subprocesses: "none", "running", "terminating",
                  \* "ok", "failed", "killed"
    tpc,          \* where the caller of each transfer is
    hframes,      \* the frames of signal_handler on the main thread, innermost first
    exit_code,    \* status given to os._exit, "none" before
    at_signal,    \* history: the subprocesses running when the first signal came
    ipc,          \* where the main thread is between signal.signal and the workers
    force_refresh, \* the argument of run()
    stdout,       \* lines the listing subprocess has yet to deliver
    cached_dirs,  \* list_dicomdirs: cached_dirs
    dicomdirs,    \* list_dicomdirs: dicomdirs
    cache,        \* DICOMDIRS_CACHE on disk
    lsf_output,   \* history: all the lines the listing subprocess of this call writes
    min_slices,   \* CONFIG["processing"]["min_slices"]
    fileset,      \* the directory records of a unit's DICOMDIR, in FileSet order
    fs_done,      \* parse_dicomdir: how many records its loop has visited
    series,       \* parse_dicomdir: per SeriesInstanceUID the files appended, by record index
    asm_todo,     \* conversion_worker: the valid series still to convert
    handed,       \* history: the uid and the file list of every convert_series call
    apc           \* where the conversion of the unit is: "off", "parse", "convert", "done"

disk == <<file, tmp, dicom, nifti, remote, listing, config, faults, iofail>>
mainv == <<mainpc, rec_todo, rec_cur>>
queues == <<q_download, q_convert, unfD, unfC>>
dwork == <<dpc, ditem>>
cwork == <<cpc, citem, cser, csp, cok>>
handv == <<hpc, snapshot>>
hist == <<run_failed, last>>
seqv == <<seq_pc, seq_todo>>
intv == <<shutdown_in_progress, active_processes, active_processes_lock, procs, tpc, hframes,
          exit_code, at_signal, ipc, force_refresh, stdout, cached_dirs, dicomdirs, cache,
          lsf_output>>
asmv == <<min_slices, fileset, fs_done, series, asm_todo, handed, apc>>
vars == <<progress, disk, mainv, queues, dwork, cwork, lock, spc, handv, hist, seqv, intv, asmv>>

\* the runs explored: which studies are listed, the pool sizes, and what the
\* environment does to the process (kills it, interrupts it, fails its writes)
Scenario(l, d, c, f) ==
    [listing |-> l, download_threads |-> d, conversion_threads |-> c, faults |-> f]

Scenarios ==
    {Scenario(<<"u1">>, 1, 1, {"kill", "io"}),
     Scenario(<<"u1">>, 1, 1, {"kill", "signal"}),
     Scenario(<<"u1", "u2">>, 1, 1, {"kill"}),
     Scenario(<<"u3">>, 1, 1, {"kill", "io"}),
     Scenario(<<"u1", "u2">>, DEFAULT_DOWNLOAD_THREADS, DEFAULT_CONVERSION_THREADS, {})}

DOWNLOAD_THREADS == config.download_threads
CONVERSION_THREADS == config.conversion_threads
\* the threads run() starts
DWorkers == {DName(i) : i \in 1..DOWNLOAD_THREADS}
CWorkers == {CName(i) : i \in 1..CONVERSION_THREADS}

\* the subprocesses a run starts: the rclone copy of a unit, rclone lsf of an
\* artifact, the rclone copy of an artifact, the recursive rclone lsf, and the
\* rclone copy of the startup recovery
Transfers == {"fetch", "exists", "upload"}
Procs == Transfers \cup {"listing", "recovery"}

\* DICOMDIRS_CACHE when the file does not exist
NoCache == [exists |-> FALSE, dicomdirs |-> <<>>, complete |-> FALSE]

\* the state of the interrupt handling and of the discovery when no process runs
IntVolatile ==
    /\ shutdown_in_progress = [flag |-> FALSE, count |-> 0]
    /\ active_processes = {}
    /\ active_processes_lock = "free"
    /\ procs = [k \in Procs |-> "none"]
    /\ tpc = [k \in Transfers |-> "idle"]
    /\ hframes = <<>>
    /\ exit_code = "none"
    /\ at_signal = {}
    /\ ipc = "off"
    /\ force_refresh = FALSE
    /\ stdout = <<>>
    /\ cached_dirs = <<>>
    /\ dicomdirs = <<>>
    /\ lsf_output = <<>>

IntOff ==
    /\ IntVolatile
    /\ cache = NoCache

\* the SeriesInstanceUIDs a DICOMDIR may name
UIDs == {"s1", "s2"}

\* no unit is being parsed
AsmOff ==
    /\ min_slices = MIN_SLICES
    /\ fileset = <<>>
    /\ fs_done = 0
    /\ series = [u \in UIDs |-> <<>>]
    /\ asm_todo = <<>>
    /\ handed = <<>>
    /\ apc = "off"

\* the state of a process that is not running
VolatileInit ==
    /\ progress = EmptyProgress
    /\ mainpc = "off"
    /\ rec_todo = {}
    /\ rec_cur = NoArt
    /\ q_download = <<>>
    /\ q_convert = <<>>
    /\ unfD = 0
    /\ unfC = 0
    /\ dpc = [w \in AllD |-> "idle"]
    /\ ditem = [w \in AllD |-> NoItem]
    /\ cpc = [w \in AllC |-> "idle"]
    /\ citem = [w \in AllC |-> NoItem]
    /\ cser = [w \in AllC |-> <<>>]
    /\ csp = [w \in AllC |-> 0]
    /\ cok = [w \in AllC |-> TRUE]
    /\ lock = NoThread
    /\ spc = [t \in Threads |-> "none"]
    /\ hpc = "idle"
    /\ snapshot = EmptyProgress
    /\ run_failed = FALSE

\* the process ends (return from run, os._exit, kill): its memory is gone
NotClean == [clean |-> FALSE, rec |-> EmptyProgress]

ProcessEnds(returned) ==
    /\ progress' = EmptyProgress
    /\ mainpc' = "off"
    /\ rec_todo' = {}
    /\ rec_cur' = NoArt
    /\ q_download' = <<>>
    /\ q_convert' = <<>>
    /\ unfD' = 0
    /\ unfC' = 0
    /\ dpc' = [w \in AllD |-> "idle"]
    /\ ditem' = [w \in AllD |-> NoItem]
    /\ cpc' = [w \in AllC |-> "idle"]
    /\ citem' = [w \in AllC |-> NoItem]
    /\ cser' = [w \in AllC |-> <<>>]
    /\ csp' = [w \in AllC |-> 0]
    /\ cok' = [w \in AllC |-> TRUE]
    /\ lock' = NoThread
    /\ spc' = [t \in Threads |-> "none"]
    /\ hpc' = "idle"
    /\ snapshot' = EmptyProgress
    /\ run_failed' = FALSE
    /\ last' = IF returned /\ ~run_failed THEN [clean |-> TRUE, rec |-> progress]
               ELSE NotClean
    /\ UNCHANGED <<seqv, intv, asmv>>

Init ==
    /\ VolatileInit
    /\ file = Absent
    /\ tmp = Absent
    /\ dicom = [u \in Units |-> "absent"]
    /\ nifti = [a \in Artifacts |-> "absent"]
    /\ remote = [a \in Artifacts |-> "absent"]
    /\ \E sc \in Scenarios :
         /\ listing = sc.listing
         /\ config = [download_threads |-> sc.download_threads,
                      conversion_threads |-> sc.conversion_threads]
         /\ faults = sc.faults
    /\ iofail = 0
    /\ last = NotClean
    /\ seq_pc = "off"
    /\ seq_todo = <<>>
    /\ IntOff
    /\ AsmOff

(***************************************************************************)
(* load_progress and save_progress                                         *)
(***************************************************************************)
\* load_progress(): the record of a readable file, else a new empty record
load_progress == IF file.st = "ok" THEN file.rec ELSE EmptyProgress

\* the argument of the save_progress call thread t is in
SaveVal(t) == IF t = HandlerT THEN snapshot ELSE progress

\* what a file holds after json.dump of v through a handle opened earlier:
\* v, unless bytes of a longer record written meanwhile stay behind it
WriteOver(old, v) ==
    IF old.st = "ok" /\ old.rec # v /\ Includes(old.rec, v) THEN Corrupt ELSE FileVal("ok", v)

\* the main thread runs only while no handler invocation is on its stack
CanStep(t) == IF t = MainT THEN hpc = "idle" ELSE TRUE

\* open(temp_file, "w"): creates or truncates the temporary file
SaveOpen(t) ==
    /\ spc[t] = "open" /\ CanStep(t)
    /\ tmp' = Corrupt
    /\ spc' = [spc EXCEPT ![t] = "write"]
    /\ UNCHANGED <<progress, file, dicom, nifti, remote, listing, config, faults, iofail, mainv, queues,
                   dwork, cwork, lock, handv, hist, seqv, intv, asmv>>

\* json.dump(p, f) and close: the temporary file is complete
SaveWrite(t) ==
    /\ spc[t] = "write" /\ CanStep(t)
    /\ tmp' = WriteOver(tmp, SaveVal(t))
    /\ spc' = [spc EXCEPT ![t] = "replace"]
    /\ UNCHANGED <<progress, file, dicom, nifti, remote, listing, config, faults, iofail, mainv, queues,
                   dwork, cwork, lock, handv, hist, seqv, intv, asmv>>

\* json.dump raises (disk full, ...): on to the fallback of the except branch
SaveWriteFails(t) ==
    /\ spc[t] = "write" /\ CanStep(t)
    /\ "io" \in faults /\ iofail < MaxIOFail
    /\ iofail' = iofail + 1
    /\ spc' = [spc EXCEPT ![t] = "fb_open"]
    /\ UNCHANGED <<progress, file, tmp, dicom, nifti, remote, listing, config, faults, mainv, queues,
                   dwork, cwork, lock, handv, hist, seqv, intv, asmv>>

\* the handle of t was opened on the temporary file, which another thread has
\* renamed to PROGRESS_FILE meanwhile: the dump lands in PROGRESS_FILE
SaveWriteRenamed(t) ==
    /\ spc[t] = "write_f" /\ CanStep(t)
    /\ file' = WriteOver(file, SaveVal(t))
    /\ spc' = [spc EXCEPT ![t] = "replace"]
    /\ UNCHANGED <<progress, tmp, dicom, nifti, remote, listing, config, faults, iofail, mainv, queues,
                   dwork, cwork, lock, handv, hist, seqv, intv, asmv>>

\* os.replace / os.rename of the temporary file onto PROGRESS_FILE; it raises
\* FileNotFoundError when the temporary file is gone
SaveReplace(t) ==
    /\ spc[t] = "replace" /\ CanStep(t)
    /\ IF tmp.st = "absent"
       THEN /\ spc' = [spc EXCEPT ![t] = "fb_open"]
            /\ UNCHANGED <<file, tmp>>
       ELSE /\ file' = tmp
            /\ tmp' = Absent
            /\ spc' = [x \in Threads |->
                         IF x = t THEN "fin"
                         ELSE IF spc[x] = "write" THEN "write_f" ELSE spc[x]]
    /\ UNCHANGED <<progress, dicom, nifti, remote, listing, config, faults, iofail, mainv, queues,
                   dwork, cwork, lock, handv, hist, seqv, intv, asmv>>

\* fallback: open(PROGRESS_FILE, "w") truncates the checkpoint file itself
SaveFallbackOpen(t) ==
    /\ spc[t] = "fb_open" /\ CanStep(t)
    /\ file' = Corrupt
    /\ spc' = [spc EXCEPT ![t] = "fb_write"]
    /\ UNCHANGED <<progress, tmp, dicom, nifti, remote, listing, config, faults, iofail, mainv, queues,
                   dwork, cwork, lock, handv, hist, seqv, intv, asmv>>

\* fallback: json.dump(p, f) straight into PROGRESS_FILE
SaveFallbackWrite(t) ==
    /\ spc[t] = "fb_write" /\ CanStep(t)
    /\ file' = FileVal("ok", SaveVal(t))
    /\ spc' = [spc EXCEPT ![t] = "fin"]
    /\ UNCHANGED <<progress, tmp, dicom, nifti, remote, listing, config, faults, iofail, mainv, queues,
                   dwork, cwork, lock, handv, hist, seqv, intv, asmv>>

\* fallback: the second json.dump raises too ("Erro critico"): the truncated
\* file stays behind and save_progress returns
SaveFallbackFails(t) ==
    /\ spc[t] = "fb_write" /\ CanStep(t)
    /\ "io" \in faults /\ iofail < MaxIOFail
    /\ iofail' = iofail + 1
    /\ spc' = [spc EXCEPT ![t] = "fin"]
    /\ run_failed' = TRUE
    /\ UNCHANGED <<progress, file, tmp, dicom, nifti, remote, listing, config, faults, mainv, queues,
                   dwork, cwork, lock, handv, last, seqv, intv, asmv>>

(***************************************************************************)
(* run(): the main thread                                                  *)
(***************************************************************************)
\* a process is started; run() begins
Start ==
    /\ mainpc = "off"
    /\ mainpc' = "load"
    /\ UNCHANGED <<progress, disk, rec_todo, rec_cur, queues, dwork, cwork, lock, spc,
                   handv, hist, seqv, intv, asmv>>

\* progress = load_progress(), then the test save_progress(progress) begins
Load ==
    /\ mainpc = "load"
    /\ progress' = load_progress
    /\ mainpc' = "testsave"
    /\ spc' = [spc EXCEPT ![MainT] = "open"]
    /\ UNCHANGED <<disk, rec_todo, rec_cur, queues, dwork, cwork, lock, handv, hist, seqv, intv, asmv>>

\* the test save returned; handlers are installed; recover_local_nifti_files()
InstallAndRecover ==
    /\ mainpc = "testsave" /\ spc[MainT] = "fin"
    /\ spc' = [spc EXCEPT ![MainT] = "none"]
    /\ rec_todo' = {a \in Artifacts : nifti[a] # "absent"}
    /\ mainpc' = "recover"
    /\ UNCHANGED <<progress, disk, rec_cur, queues, dwork, cwork, lock, handv, hist, seqv, intv, asmv>>

\* a recovery loop that visits every local file, recorded or not
C8_RecoverAll ==
    /\ mainpc = "recover" /\ hpc = "idle"
    /\ rec_todo # {}
    /\ \E f \in rec_todo :
         /\ rec_todo' = rec_todo \ {f}
         /\ mainpc' = "rec_check" /\ rec_cur' = f
    /\ UNCHANGED <<progress, disk, queues, dwork, cwork, lock, spc, handv, hist, seqv, intv, asmv>>

\* for filename in local_nifti_files: files already recorded are passed over
RecoverNext ==
    /\ mainpc = "recover" /\ hpc = "idle"
    /\ rec_todo # {}
    /\ \E f \in rec_todo :
         /\ rec_todo' = rec_todo \ {f}
         /\ IF f \in progress.uploaded_files
            THEN UNCHANGED <<mainpc, rec_cur>>
            ELSE mainpc' = "rec_check" /\ rec_cur' = f
    /\ UNCHANGED <<progress, disk, queues, dwork, cwork, lock, spc, handv, hist, seqv, intv, asmv>>

\* check_remote_file_exists(remote_file): False also when rclone lsf fails
RecoverCheck ==
    /\ mainpc = "rec_check" /\ hpc = "idle"
    /\ \E found \in {remote[rec_cur] # "absent", FALSE} :
         IF found
         THEN /\ progress' = [progress EXCEPT !.uploaded_files = @ \cup {rec_cur}]
              /\ mainpc' = "rec_save"
              /\ spc' = [spc EXCEPT ![MainT] = "open"]
         ELSE /\ mainpc' = "rec_upload"
              /\ UNCHANGED <<progress, spc>>
    /\ UNCHANGED <<disk, rec_todo, rec_cur, queues, dwork, cwork, lock, handv, hist, seqv, intv, asmv>>

\* rclone copy local_file GDRIVE_NIFTI; on success the name is appended and
\* save_progress begins, on failure the error is logged
RecoverUpload ==
    /\ mainpc = "rec_upload" /\ hpc = "idle"
    /\ \/ /\ remote' = [remote EXCEPT ![rec_cur] = nifti[rec_cur]]
          /\ progress' = [progress EXCEPT !.uploaded_files = @ \cup {rec_cur}]
          /\ mainpc' = "rec_save"
          /\ spc' = [spc EXCEPT ![MainT] = "open"]
          /\ UNCHANGED run_failed
       \/ /\ mainpc' = "rec_remove"
          /\ run_failed' = TRUE
          /\ UNCHANGED <<remote, progress, spc>>
    /\ UNCHANGED <<file, tmp, dicom, nifti, listing, config, faults, iofail, rec_todo, rec_cur, queues,
                   dwork, cwork, lock, handv, last, seqv, intv, asmv>>

\* save_progress(progress) of the recovery loop returned
RecoverSaved ==
    /\ mainpc = "rec_save" /\ hpc = "idle" /\ spc[MainT] = "fin"
    /\ spc' = [spc EXCEPT ![MainT] = "none"]
    /\ mainpc' = "rec_remove"
    /\ UNCHANGED <<progress, disk, rec_todo, rec_cur, queues, dwork, cwork, lock, handv, hist, seqv, intv, asmv>>

\* if filename in progress["uploaded_files"] and os.path.exists: os.remove
RecoverRemove ==
    /\ mainpc = "rec_remove" /\ hpc = "idle"
    /\ nifti' = IF rec_cur \in progress.uploaded_files
                THEN [nifti EXCEPT ![rec_cur] = "absent"] ELSE nifti
    /\ rec_cur' = NoArt
    /\ mainpc' = "recover"
    /\ UNCHANGED <<progress, file, tmp, dicom, remote, listing, config, faults, iofail, rec_todo, queues,
                   dwork, cwork, lock, spc, handv, hist, seqv, intv, asmv>>

\* a split that sends a recorded unit whose directory is gone to the fetch
C7_RefetchConverted ==
    SelectSeq(listing, LAMBDA d : d \notin progress.downloaded \/ dicom[d] = "absent")

\* a split that sends to conversion every unit whose directory exists
C15_ConvertUnrecorded ==
    SelectSeq(listing, LAMBDA d : d \notin progress.converted /\ dicom[d] # "absent")

\* for d in dicomdirs: the three-way split of run()
to_convert ==
    SelectSeq(listing, LAMBDA d : d \notin progress.converted /\ d \in progress.downloaded
                      /\ dicom[d] # "absent")

to_download ==
    SelectSeq(listing, LAMBDA d : d \notin progress.converted
                      /\ (d \notin progress.downloaded \/ dicom[d] = "absent"))

\* list_dicomdirs, the split, the two queues; with nothing to do run() returns,
\* otherwise the worker threads are started
Fill ==
    /\ mainpc = "recover" /\ hpc = "idle"
    /\ rec_todo = {}
    /\ IF Len(to_download) + Len(to_convert) = 0
       THEN /\ ProcessEnds(TRUE)
            /\ UNCHANGED disk
       ELSE /\ q_download' = to_download
            /\ q_convert' = to_convert
            /\ unfD' = Len(to_download)
            /\ unfC' = Len(to_convert)
            /\ dpc' = [w \in AllD |-> IF w \in DWorkers THEN "get" ELSE "idle"]
            /\ cpc' = [w \in AllC |-> IF w \in CWorkers THEN "get" ELSE "idle"]
            /\ mainpc' = "joinD"
            /\ UNCHANGED <<progress, disk, rec_todo, rec_cur, ditem, citem, cser, csp, cok,
                           lock, spc, handv, hist, seqv, intv, asmv>>

\* q_download.join() returned: one None per download worker
StopDownloads ==
    /\ mainpc = "joinD" /\ hpc = "idle"
    /\ unfD = 0
    /\ q_download' = q_download \o [i \in 1..DOWNLOAD_THREADS |-> None]
    /\ mainpc' = "joinDT"
    /\ UNCHANGED <<progress, disk, rec_todo, rec_cur, q_convert, unfD, unfC, dwork, cwork,
                   lock, spc, handv, hist, seqv, intv, asmv>>

\* every download thread joined; q_convert.join() is next
DownloadsJoined ==
    /\ mainpc = "joinDT" /\ hpc = "idle"
    /\ \A w \in DWorkers : dpc[w] = "done"
    /\ mainpc' = "joinC"
    /\ UNCHANGED <<progress, disk, rec_todo, rec_cur, queues, dwork, cwork, lock, spc,
                   handv, hist, seqv, intv, asmv>>

\* a run() that sends the conversion sentinels without q_convert.join()
C13_StopWithoutJoin ==
    /\ mainpc = "joinC" /\ hpc = "idle"
    /\ q_convert' = q_convert \o [i \in 1..CONVERSION_THREADS |-> None]
    /\ mainpc' = "joinCT"
    /\ UNCHANGED <<progress, disk, rec_todo, rec_cur, q_download, unfD, unfC, dwork, cwork,
                   lock, spc, handv, hist, seqv, intv, asmv>>

\* q_convert.join() returned: one None per conversion worker
StopConversions ==
    /\ mainpc = "joinC" /\ hpc = "idle"
    /\ unfC = 0
    /\ q_convert' = q_convert \o [i \in 1..CONVERSION_THREADS |-> None]
    /\ mainpc' = "joinCT"
    /\ UNCHANGED <<progress, disk, rec_todo, rec_cur, q_download, unfD, unfC, dwork, cwork,
                   lock, spc, handv, hist, seqv, intv, asmv>>

\* every conversion thread joined; the metadata is exported and run() returns
Finish ==
    /\ mainpc = "joinCT" /\ hpc = "idle"
    /\ \A w \in CWorkers : cpc[w] = "done"
    /\ ProcessEnds(TRUE)
    /\ UNCHANGED disk

(***************************************************************************)
(* download_worker                                                         *)
(***************************************************************************)
\* len(os.listdir(local)) > 0 for an existing directory
NonEmpty(u) == dicom[u] \in {"partial", "full"}

\* q_download.get(): None ends the worker; a unit already registered whose
\* directory has content is passed on without a transfer; else the copy is next
DownloadGet(w) ==
    /\ dpc[w] = "get"
    /\ q_download # <<>>
    /\ q_download' = Tail(q_download)
    /\ LET item == Head(q_download) IN
         IF item = None
         THEN /\ dpc' = [dpc EXCEPT ![w] = "done"]
              /\ UNCHANGED <<ditem, q_convert, unfD, unfC>>
         ELSE /\ lock = NoThread
              /\ IF item \in progress.downloaded /\ NonEmpty(item)
                 THEN /\ q_convert' = Append(q_convert, item)
                      /\ unfC' = unfC + 1
                      /\ unfD' = unfD - 1
                      /\ UNCHANGED <<dpc, ditem>>
                 ELSE /\ dpc' = [dpc EXCEPT ![w] = "copy"]
                      /\ ditem' = [ditem EXCEPT ![w] = item]
                      /\ UNCHANGED <<q_convert, unfD, unfC>>
    /\ UNCHANGED <<progress, disk, mainv, cwork, lock, spc, handv, hist, seqv, intv, asmv>>

\* what the directory may hold after os.makedirs and a successful rclone copy:
\* the study, or nothing when the remote directory has no files
AfterCopyOk(d) == IF d \in {"absent", "empty"} THEN {"full", "empty"} ELSE {"full"}

\* what the directory may hold after os.makedirs and a failed rclone copy
AfterCopyFail(d) == IF d = "full" THEN {"full"}
                    ELSE IF d = "partial" THEN {"partial"} ELSE {"empty", "partial"}

\* the post-condition of the transfer: os.path.exists and len(os.listdir) > 0
DownloadOk(ok, d) == ok /\ d \in {"partial", "full"}

\* os.makedirs(local), rclone copy, the check of the directory; a failed or
\* empty transfer is logged and the item acknowledged
DownloadCopy(w) ==
    /\ dpc[w] = "copy"
    /\ \E ok \in BOOLEAN :
       \E d \in (IF ok THEN AfterCopyOk(dicom[ditem[w]]) ELSE AfterCopyFail(dicom[ditem[w]])) :
         /\ dicom' = [dicom EXCEPT ![ditem[w]] = d]
         /\ IF DownloadOk(ok, d)
            THEN /\ dpc' = [dpc EXCEPT ![w] = "record"]
                 /\ UNCHANGED <<ditem, unfD, run_failed>>
            ELSE /\ dpc' = [dpc EXCEPT ![w] = "get"]
                 /\ ditem' = [ditem EXCEPT ![w] = NoItem]
                 /\ unfD' = unfD - 1
                 /\ run_failed' = TRUE
    /\ UNCHANGED <<progress, file, tmp, nifti, remote, listing, config, faults, iofail, mainv, q_download,
                   q_convert, unfC, cwork, lock, spc, handv, last, seqv, intv, asmv>>

\* os.makedirs(local, exist_ok=True) raises (a file of that name, no space,
\* no permission): the call is outside the try block, so the exception ends
\* the thread before q_download.task_done()
DownloadDies(w) ==
    /\ dpc[w] = "copy"
    /\ "io" \in faults /\ iofail < MaxIOFail
    /\ iofail' = iofail + 1
    /\ dpc' = [dpc EXCEPT ![w] = "dead"]
    /\ ditem' = [ditem EXCEPT ![w] = NoItem]
    /\ run_failed' = TRUE
    /\ UNCHANGED <<progress, file, tmp, dicom, nifti, remote, listing, config, faults, mainv, queues,
                   cwork, lock, spc, handv, last, seqv, intv, asmv>>

\* with progress_lock: append to progress["downloaded"], save_progress begins
DownloadRecord(w) ==
    /\ dpc[w] = "record"
    /\ lock = NoThread
    /\ lock' = w
    /\ progress' = [progress EXCEPT !.downloaded = @ \cup {ditem[w]}]
    /\ spc' = [spc EXCEPT ![w] = "open"]
    /\ dpc' = [dpc EXCEPT ![w] = "saving"]
    /\ UNCHANGED <<disk, mainv, queues, ditem, cwork, handv, hist, seqv, intv, asmv>>

\* save_progress returned, the lock is released; q_convert.put(item) and
\* q_download.task_done()
DownloadForward(w) ==
    /\ dpc[w] = "saving" /\ spc[w] = "fin"
    /\ spc' = [spc EXCEPT ![w] = "none"]
    /\ lock' = NoThread
    /\ q_convert' = Append(q_convert, ditem[w])
    /\ unfC' = unfC + 1
    /\ unfD' = unfD - 1
    /\ dpc' = [dpc EXCEPT ![w] = "get"]
    /\ ditem' = [ditem EXCEPT ![w] = NoItem]
    /\ UNCHANGED <<progress, disk, mainv, q_download, cwork, handv, hist, seqv, intv, asmv>>

(***************************************************************************)
(* conversion_worker                                                       *)
(***************************************************************************)
\* the artifact of the series the for loop of worker c is at
CurArt(c) == nifti_filename(citem[c], Head(cser[c]))

\* q_convert.task_done() and back to q_convert.get()
ConvAck(c) ==
    /\ unfC' = unfC - 1
    /\ cpc' = [cpc EXCEPT ![c] = "get"]
    /\ citem' = [citem EXCEPT ![c] = NoItem]
    /\ cser' = [cser EXCEPT ![c] = <<>>]
    /\ csp' = [csp EXCEPT ![c] = 0]
    /\ cok' = [cok EXCEPT ![c] = TRUE]

\* the for loop moves on to the next series with series_processed += 1
ConvNextSeries(c) ==
    /\ csp' = [csp EXCEPT ![c] = @ + 1]
    /\ cser' = [cser EXCEPT ![c] = Tail(@)]
    /\ cpc' = [cpc EXCEPT ![c] = "loop"]

\* q_convert.get(): None ends the worker; a converted unit and a unit whose
\* directory is missing are acknowledged; parse_dicomdir raises on a directory
\* without a readable DICOMDIR; else the loop over the valid series begins
ConvGet(c) ==
    /\ cpc[c] = "get"
    /\ q_convert # <<>>
    /\ q_convert' = Tail(q_convert)
    /\ LET item == Head(q_convert) IN
         IF item = None
         THEN /\ cpc' = [cpc EXCEPT ![c] = "done"]
              /\ UNCHANGED <<citem, cser, csp, cok, unfC, run_failed>>
         ELSE /\ lock = NoThread
              /\ IF item \in progress.converted \/ dicom[item] # "full"
                 THEN /\ unfC' = unfC - 1
                      /\ run_failed' = (run_failed \/ item \notin progress.converted)
                      /\ UNCHANGED <<cpc, citem, cser, csp, cok>>
                 ELSE /\ cpc' = [cpc EXCEPT ![c] = "loop"]
                      /\ citem' = [citem EXCEPT ![c] = item]
                      /\ cser' = [cser EXCEPT ![c] = valid_series(item)]
                      /\ csp' = [csp EXCEPT ![c] = 0]
                      /\ cok' = [cok EXCEPT ![c] = TRUE]
                      /\ UNCHANGED <<unfC, run_failed>>
    /\ UNCHANGED <<progress, disk, mainv, q_download, unfD, dwork, lock, spc, handv, last, seqv, intv, asmv>>

\* top of the for loop: with progress_lock, a file already in uploaded_files
\* is counted and passed over; after the last series the loop ends
ConvSeries(c) ==
    /\ cpc[c] = "loop"
    /\ IF cser[c] = <<>>
       THEN /\ cpc' = [cpc EXCEPT ![c] = "finish"]
            /\ UNCHANGED <<cser, csp>>
       ELSE /\ lock = NoThread
            /\ IF CurArt(c) \in progress.uploaded_files
               THEN ConvNextSeries(c)
               ELSE /\ cpc' = [cpc EXCEPT ![c] = "check"]
                    /\ UNCHANGED <<cser, csp>>
    /\ UNCHANGED <<progress, disk, mainv, queues, dwork, citem, cok, lock, spc, handv, hist, seqv, intv, asmv>>

\* check_remote_file_exists(remote_file), then os.path.exists(out)
ConvCheck(c) ==
    /\ cpc[c] = "check"
    /\ \E found \in {remote[CurArt(c)] # "absent", FALSE} :
         cpc' = [cpc EXCEPT ![c] =
                   IF found THEN "rec_remote"
                   ELSE IF nifti[CurArt(c)] = "absent" THEN "convert" ELSE "upload"]
    /\ UNCHANGED <<progress, disk, mainv, queues, dwork, citem, cser, csp, cok, lock, spc,
                   handv, hist, seqv, intv, asmv>>

\* the file is at the destination: with progress_lock it is appended to
\* uploaded_files and save_progress begins
ConvRecordRemote(c) ==
    /\ cpc[c] = "rec_remote"
    /\ lock = NoThread
    /\ lock' = c
    /\ progress' = [progress EXCEPT !.uploaded_files = @ \cup {CurArt(c)}]
    /\ spc' = [spc EXCEPT ![c] = "open"]
    /\ cpc' = [cpc EXCEPT ![c] = "sav_remote"]
    /\ UNCHANGED <<disk, mainv, queues, dwork, citem, cser, csp, cok, handv, hist, seqv, intv, asmv>>

\* convert_series(files, out): the volume is written, or the call raises and
\* may leave a partly written file; a failure ends the loop for this unit
ConvConvert(c) ==
    /\ cpc[c] = "convert"
    /\ \/ /\ nifti' = [nifti EXCEPT ![CurArt(c)] = "complete"]
          /\ cpc' = [cpc EXCEPT ![c] = "upload"]
          /\ UNCHANGED <<cok, run_failed>>
       \/ /\ \E left \in {"absent", "partial"} :
               nifti' = [nifti EXCEPT ![CurArt(c)] = left]
          /\ cok' = [cok EXCEPT ![c] = FALSE]
          /\ cpc' = [cpc EXCEPT ![c] = "finish"]
          /\ run_failed' = TRUE
    /\ UNCHANGED <<progress, file, tmp, dicom, remote, listing, config, faults, iofail, mainv, queues, dwork,
                   citem, cser, csp, lock, spc, handv, last, seqv, intv, asmv>>

\* an upload step that goes on to record the file whether rclone failed or not
C4_RecordAnyway(c) ==
    /\ cpc[c] = "upload"
    /\ nifti[CurArt(c)] # "absent"
    /\ \E sent \in BOOLEAN :
         remote' = IF sent THEN [remote EXCEPT ![CurArt(c)] = nifti[CurArt(c)]] ELSE remote
    /\ cpc' = [cpc EXCEPT ![c] = "rec_up"]
    /\ UNCHANGED <<progress, file, tmp, dicom, nifti, listing, config, faults, iofail, mainv, queues,
                   dwork, citem, cser, csp, cok, lock, spc, handv, hist, seqv, intv, asmv>>

\* nib.load(out) and sha256(out), which may raise on a partly written file (the
\* unit is then given up), then rclone copy out GDRIVE_NIFTI
ConvUpload(c) ==
    /\ cpc[c] = "upload"
    /\ \/ /\ nifti[CurArt(c)] # "absent"
          /\ remote' = [remote EXCEPT ![CurArt(c)] = nifti[CurArt(c)]]
          /\ cpc' = [cpc EXCEPT ![c] = "rec_up"]
          /\ UNCHANGED <<cok, citem, cser, csp, unfC, run_failed>>
       \/ /\ nifti[CurArt(c)] # "absent"
          /\ cok' = [cok EXCEPT ![c] = FALSE]
          /\ cpc' = [cpc EXCEPT ![c] = "finish"]
          /\ run_failed' = TRUE
          /\ UNCHANGED <<remote, citem, cser, csp, unfC>>
       \/ /\ nifti[CurArt(c)] # "complete"
          /\ ConvAck(c)
          /\ run_failed' = TRUE
          /\ UNCHANGED remote
    /\ UNCHANGED <<progress, file, tmp, dicom, nifti, listing, config, faults, iofail, mainv, q_download,
                   q_convert, unfD, dwork, lock, spc, handv, last, seqv, intv, asmv>>

\* the upload succeeded: with progress_lock the name is appended to
\* uploaded_files and save_progress begins
ConvRecordUpload(c) ==
    /\ cpc[c] = "rec_up"
    /\ lock = NoThread
    /\ lock' = c
    /\ progress' = [progress EXCEPT !.uploaded_files = @ \cup {CurArt(c)}]
    /\ spc' = [spc EXCEPT ![c] = "open"]
    /\ cpc' = [cpc EXCEPT ![c] = "sav_up"]
    /\ UNCHANGED <<disk, mainv, queues, dwork, citem, cser, csp, cok, handv, hist, seqv, intv, asmv>>

\* os.remove(out) after the upload was recorded; FileNotFoundError is caught
\* as an upload error
ConvRemove(c) ==
    /\ cpc[c] = "remove"
    /\ IF nifti[CurArt(c)] # "absent"
       THEN /\ nifti' = [nifti EXCEPT ![CurArt(c)] = "absent"]
            /\ ConvNextSeries(c)
            /\ UNCHANGED <<cok, run_failed>>
       ELSE /\ cok' = [cok EXCEPT ![c] = FALSE]
            /\ cpc' = [cpc EXCEPT ![c] = "finish"]
            /\ run_failed' = TRUE
            /\ UNCHANGED <<nifti, cser, csp>>
    /\ UNCHANGED <<progress, file, tmp, dicom, remote, listing, config, faults, iofail, mainv, queues, dwork,
                   citem, lock, spc, handv, last, seqv, intv, asmv>>

\* a conversion worker that records the unit whatever happened in the loop
C2_AlwaysDone(c) == TRUE

\* conversion_successful and series_processed == len(valid_series)
AllSeriesDone(c) == cok[c] /\ csp[c] = Len(valid_series(citem[c]))

\* what shutil.rmtree(path) leaves of a directory d: nothing, or, when it
\* raises, the directory as it was, some of its files, or the bare directory
rmtree(d) == {"absent", d, "partial", "empty"}

\* after the loop: when every series was processed shutil.rmtree(path) (an
\* error is only logged) and the unit is to be recorded; else it is left for
\* the next run
ConvFinish(c) ==
    /\ cpc[c] = "finish"
    /\ IF AllSeriesDone(c)
       THEN /\ \E left \in rmtree(dicom[citem[c]]) :
                 dicom' = [dicom EXCEPT ![citem[c]] = left]
            /\ cpc' = [cpc EXCEPT ![c] = "rec_conv"]
            /\ UNCHANGED <<citem, cser, csp, cok, unfC>>
       ELSE /\ ConvAck(c)
            /\ UNCHANGED dicom
    /\ UNCHANGED <<progress, file, tmp, nifti, remote, listing, config, faults, iofail, mainv, q_download,
                   q_convert, unfD, dwork, lock, spc, handv, hist, seqv, intv, asmv>>

\* with progress_lock: append to progress["converted"], save_progress begins
ConvRecordConverted(c) ==
    /\ cpc[c] = "rec_conv"
    /\ lock = NoThread
    /\ lock' = c
    /\ progress' = [progress EXCEPT !.converted = @ \cup {citem[c]}]
    /\ spc' = [spc EXCEPT ![c] = "open"]
    /\ cpc' = [cpc EXCEPT ![c] = "sav_conv"]
    /\ UNCHANGED <<disk, mainv, queues, dwork, citem, cser, csp, cok, handv, hist, seqv, intv, asmv>>

\* save_progress returned and the lock is released: the loop goes on, the
\* local file is removed next, or the unit is acknowledged
ConvSaved(c) ==
    /\ cpc[c] \in {"sav_remote", "sav_up", "sav_conv"} /\ spc[c] = "fin"
    /\ spc' = [spc EXCEPT ![c] = "none"]
    /\ lock' = NoThread
    /\ IF cpc[c] = "sav_remote"
       THEN ConvNextSeries(c) /\ UNCHANGED <<citem, cok, unfC>>
       ELSE IF cpc[c] = "sav_up"
       THEN cpc' = [cpc EXCEPT ![c] = "remove"] /\ UNCHANGED <<citem, cser, csp, cok, unfC>>
       ELSE ConvAck(c)
    /\ UNCHANGED <<progress, disk, mainv, q_download, q_convert, unfD, dwork, handv, hist, seqv, intv, asmv>>

(***************************************************************************)
(* signal_handler, a kill, and the next-state relation                     *)
(***************************************************************************)
\* signal.signal has been called: from the recovery loop on
HandlersInstalled == mainpc \notin {"off", "load", "testsave"}

\* SIGINT / SIGTERM: the handler starts on the main thread
Signal ==
    /\ "signal" \in faults
    /\ HandlersInstalled
    /\ hpc = "idle"
    /\ hpc' = "snapshot"
    /\ UNCHANGED <<progress, disk, mainv, queues, dwork, cwork, lock, spc, snapshot, hist, seqv, intv, asmv>>

\* with progress_lock: the copy of the four lists; save_progress(snapshot)
\* begins after the lock is released
HandlerSnapshot ==
    /\ hpc = "snapshot"
    /\ lock = NoThread
    /\ snapshot' = progress
    /\ hpc' = "save"
    /\ spc' = [spc EXCEPT ![HandlerT] = "open"]
    /\ UNCHANGED <<progress, disk, mainv, queues, dwork, cwork, lock, hist, seqv, intv, asmv>>

\* save_progress(progress_snapshot) returned: os._exit(0)
HandlerExit ==
    /\ hpc = "save" /\ spc[HandlerT] = "fin"
    /\ ProcessEnds(FALSE)
    /\ UNCHANGED disk

\* the process is killed (SIGKILL, power loss) at any point
Kill ==
    /\ "kill" \in faults
    /\ mainpc # "off"
    /\ ProcessEnds(FALSE)
    /\ UNCHANGED disk

Next ==
    \/ Start
    \/ Load
    \/ InstallAndRecover
    \/ RecoverNext
    \/ RecoverCheck
    \/ RecoverUpload
    \/ RecoverSaved
    \/ RecoverRemove
    \/ Fill
    \/ StopDownloads
    \/ DownloadsJoined
    \/ StopConversions
    \/ Finish
    \/ \E t \in Threads : SaveOpen(t)
    \/ \E t \in Threads : SaveWrite(t)
    \/ \E t \in Threads : SaveWriteFails(t)
    \/ \E t \in Threads : SaveWriteRenamed(t)
    \/ \E t \in Threads : SaveReplace(t)
    \/ \E t \in Threads : SaveFallbackOpen(t)
    \/ \E t \in Threads : SaveFallbackWrite(t)
    \/ \E t \in Threads : SaveFallbackFails(t)
    \/ \E w \in DWorkers : DownloadGet(w)
    \/ \E w \in DWorkers : DownloadCopy(w)
    \/ \E w \in DWorkers : DownloadDies(w)
    \/ \E w \in DWorkers : DownloadRecord(w)
    \/ \E w \in DWorkers : DownloadForward(w)
    \/ \E c \in CWorkers : ConvGet(c)
    \/ \E c \in CWorkers : ConvSeries(c)
    \/ \E c \in CWorkers : ConvCheck(c)
    \/ \E c \in CWorkers : ConvRecordRemote(c)
    \/ \E c \in CWorkers : ConvConvert(c)
    \/ \E c \in CWorkers : ConvUpload(c)
    \/ \E c \in CWorkers : ConvRecordUpload(c)
    \/ \E c \in CWorkers : ConvRemove(c)
    \/ \E c \in CWorkers : ConvFinish(c)
    \/ \E c \in CWorkers : ConvRecordConverted(c)
    \/ \E c \in CWorkers : ConvSaved(c)
    \/ Signal
    \/ HandlerSnapshot
    \/ HandlerExit
    \/ Kill

Spec == Init /\ [][Next]_vars

\* download_worker and conversion_worker launched, as run() launches them,
\* against a download queue that holds the unit u1 twice
InitQueued ==
    /\ progress = EmptyProgress
    /\ mainpc = "joinD"
    /\ rec_todo = {}
    /\ rec_cur = NoArt
    /\ q_download = <<"u1", "u1">>
    /\ q_convert = <<>>
    /\ unfD = 2
    /\ unfC = 0
    /\ dpc = [w \in AllD |-> "get"]
    /\ ditem = [w \in AllD |-> NoItem]
    /\ cpc = [w \in AllC |-> "get"]
    /\ citem = [w \in AllC |-> NoItem]
    /\ cser = [w \in AllC |-> <<>>]
    /\ csp = [w \in AllC |-> 0]
    /\ cok = [w \in AllC |-> TRUE]
    /\ lock = NoThread
    /\ spc = [t \in Threads |-> "none"]
    /\ hpc = "idle"
    /\ snapshot = EmptyProgress
    /\ run_failed = FALSE
    /\ file = Absent
    /\ tmp = Absent
    /\ dicom = [u \in Units |-> "absent"]
    /\ nifti = [a \in Artifacts |-> "absent"]
    /\ remote = [a \in Artifacts |-> "absent"]
    /\ listing = <<"u1">>
    /\ config = [download_threads |-> DEFAULT_DOWNLOAD_THREADS,
                 conversion_threads |-> DEFAULT_CONVERSION_THREADS]
    /\ faults = {}
    /\ iofail = 0
    /\ last = NotClean
    /\ seq_pc = "off"
    /\ seq_todo = <<>>
    /\ IntOff
    /\ AsmOff

SpecQueued == (Init \/ InitQueued) /\ [][Next]_vars

(***************************************************************************)
(* config.py: the sequential pipeline (load_progress, save_progress,       *)
(* list_dicomdirs, download_exam, convert_exam, upload_exam, run). The     *)
(* names config.PROGRESS_FILE, config.LOCAL_DICOM, ... it reads are the    *)
(* same checkpoint file, staging directories and destination.              *)
(***************************************************************************)
\* the record load_progress of config.py returns when there is no file
SeqEmptyProgress == [listed |-> <<>>, downloaded |-> {}, converted |-> {}, uploaded |-> {}]

\* everything but the disk and the sequential run stays as it is
SeqFrame ==
    UNCHANGED <<tmp, listing, config, faults, iofail, mainv, queues, dwork, cwork, lock, spc,
                handv, hist, intv, asmv>>

\* the process of config.py ends: return from run(), an uncaught exception, a kill
SeqEnds ==
    /\ seq_pc' = "off"
    /\ seq_todo' = <<>>
    /\ progress' = EmptyProgress

\* python config.py: run() begins
SeqStart ==
    /\ seq_pc = "off"
    /\ seq_pc' = "load"
    /\ UNCHANGED <<progress, file, dicom, nifti, remote, seq_todo>>
    /\ SeqFrame

\* progress = load_progress(): json.load raises on an unreadable file and ends
\* the process; list_dicomdirs(progress) returns progress["listed"] when it is
\* not empty, else lists the remote, stores the list and opens the file to
\* save it
SeqLoad ==
    /\ seq_pc = "load"
    /\ IF file.st = "corrupt"
       THEN SeqEnds /\ UNCHANGED file
       ELSE LET p == IF file.st = "ok" THEN file.rec ELSE SeqEmptyProgress IN
            IF p.listed # <<>>
            THEN /\ progress' = p
                 /\ seq_todo' = p.listed
                 /\ seq_pc' = "download"
                 /\ UNCHANGED file
            ELSE /\ progress' = [p EXCEPT !.listed = listing]
                 /\ file' = Corrupt
                 /\ seq_pc' = "list_save"
                 /\ UNCHANGED seq_todo
    /\ UNCHANGED <<dicom, nifti, remote>>
    /\ SeqFrame

\* save_progress of config.py, after open(PROGRESS_FILE, "w"): json.dump(p, f);
\* then run() goes on where the save was called
SeqSaveWrite ==
    /\ seq_pc \in {"list_save", "down_save", "conv_save", "up_save"}
    /\ file' = FileVal("ok", progress)
    /\ seq_pc' = CASE seq_pc = "list_save" -> "download"
                   [] seq_pc = "down_save" -> "convert"
                   [] seq_pc = "conv_save" -> "upload"
                   [] OTHER -> "download"
    /\ seq_todo' = CASE seq_pc = "list_save" -> progress.listed
                     [] seq_pc = "up_save" -> Tail(seq_todo)
                     [] OTHER -> seq_todo
    /\ UNCHANGED <<progress, dicom, nifti, remote>>
    /\ SeqFrame

\* what download_exam leaves: rclone copy --ignore-existing --checksum exits 0
\* (the study, or nothing for a remote directory without files) or
\* subprocess.run(check=True) raises
download_exam(ok, d) == IF ok THEN AfterCopyOk(d) ELSE AfterCopyFail(d) \cup {d}

\* top of the for loop: after the last dicomdir run() returns; for an exam
\* not in progress["downloaded"], download_exam(dcm, local_exam_dir)
SeqDownload ==
    /\ seq_pc = "download"
    /\ IF seq_todo = <<>>
       THEN SeqEnds /\ UNCHANGED dicom
       ELSE LET exam_id == Head(seq_todo) IN
            IF exam_id \in progress.downloaded
            THEN /\ seq_pc' = "convert"
                 /\ UNCHANGED <<progress, dicom, seq_todo>>
            ELSE \E ok \in BOOLEAN : \E d \in download_exam(ok, dicom[exam_id]) :
                   /\ dicom' = [dicom EXCEPT ![exam_id] = d]
                   /\ IF ok
                      THEN /\ seq_pc' = "down_rec"
                           /\ UNCHANGED <<progress, seq_todo>>
                      ELSE SeqEnds
    /\ UNCHANGED <<file, nifti, remote>>
    /\ SeqFrame

\* progress["downloaded"].append(exam_id) and save_progress opens the file
SeqRecordDownloaded ==
    /\ seq_pc = "down_rec"
    /\ progress' = [progress EXCEPT !.downloaded = @ \cup {Head(seq_todo)}]
    /\ file' = Corrupt
    /\ seq_pc' = "down_save"
    /\ UNCHANGED <<dicom, nifti, remote, seq_todo>>
    /\ SeqFrame

\* convert_exam(local_exam_dir, local_nifti_dir): False when GDCM finds no
\* series with MIN_SLICES files, else every such series is written; or
\* reader.Execute raises. After False the loop continues with the next exam
SeqConvert ==
    /\ seq_pc = "convert"
    /\ LET exam_id == Head(seq_todo) IN
       IF exam_id \in progress.converted
       THEN /\ seq_pc' = "upload"
            /\ UNCHANGED <<progress, nifti, seq_todo>>
       ELSE IF dicom[exam_id] = "full" /\ valid_series(exam_id) # <<>>
       THEN \/ /\ nifti' = [a \in Artifacts |->
                             IF a \in ArtifactsOf(exam_id) THEN "complete" ELSE nifti[a]]
               /\ seq_pc' = "conv_rec"
               /\ UNCHANGED <<progress, seq_todo>>
            \/ SeqEnds /\ UNCHANGED nifti
       ELSE /\ seq_todo' = Tail(seq_todo)
            /\ seq_pc' = "download"
            /\ UNCHANGED <<progress, nifti>>
    /\ UNCHANGED <<file, dicom, remote>>
    /\ SeqFrame

\* progress["converted"].append(exam_id) and save_progress opens the file
SeqRecordConverted ==
    /\ seq_pc = "conv_rec"
    /\ progress' = [progress EXCEPT !.converted = @ \cup {Head(seq_todo)}]
    /\ file' = Corrupt
    /\ seq_pc' = "conv_save"
    /\ UNCHANGED <<dicom, nifti, remote, seq_todo>>
    /\ SeqFrame

\* upload_exam(local_nifti_dir, exam_id): False for a missing or empty
\* directory; else rclone copy --ignore-existing, which raises on failure
SeqUpload ==
    /\ seq_pc = "upload"
    /\ LET exam_id == Head(seq_todo)
           local == {a \in Artifacts : a[1] = exam_id /\ nifti[a] # "absent"} IN
       IF exam_id \in progress.uploaded \/ local = {}
       THEN /\ seq_todo' = Tail(seq_todo)
            /\ seq_pc' = "download"
            /\ UNCHANGED <<progress, remote>>
       ELSE \/ /\ remote' = [a \in Artifacts |->
                              IF a \in local /\ remote[a] = "absent" THEN nifti[a]
                              ELSE remote[a]]
               /\ seq_pc' = "up_rec"
               /\ UNCHANGED <<progress, seq_todo>>
            \/ SeqEnds /\ UNCHANGED remote
    /\ UNCHANGED <<file, dicom, nifti>>
    /\ SeqFrame

\* progress["uploaded"].append(exam_id) and save_progress opens the file
SeqRecordUploaded ==
    /\ seq_pc = "up_rec"
    /\ progress' = [progress EXCEPT !.uploaded = @ \cup {Head(seq_todo)}]
    /\ file' = Corrupt
    /\ seq_pc' = "up_save"
    /\ UNCHANGED <<dicom, nifti, remote, seq_todo>>
    /\ SeqFrame

\* the process of config.py is killed at any point
SeqKill ==
    /\ seq_pc # "off"
    /\ SeqEnds
    /\ UNCHANGED <<file, dicom, nifti, remote>>
    /\ SeqFrame

InitSeq ==
    /\ VolatileInit
    /\ file = Absent
    /\ tmp = Absent
    /\ dicom = [u \in Units |-> "absent"]
    /\ nifti = [a \in Artifacts |-> "absent"]
    /\ remote = [a \in Artifacts |-> "absent"]
    /\ listing \in {<<"u1">>, <<"u1", "u2">>}
    /\ config = [download_threads |-> 1, conversion_threads |-> 1]
    /\ faults = {"kill"}
    /\ iofail = 0
    /\ last = NotClean
    /\ seq_pc = "off"
    /\ seq_todo = <<>>
    /\ IntOff
    /\ AsmOff

\* the steps of config.py's run() itself
NextSeqRun ==
    \/ SeqStart
    \/ SeqLoad
    \/ SeqSaveWrite
    \/ SeqDownload
    \/ SeqRecordDownloaded
    \/ SeqConvert
    \/ SeqRecordConverted
    \/ SeqUpload
    \/ SeqRecordUploaded

NextSeq ==
    \/ NextSeqRun
    \/ SeqKill

SpecSeq == InitSeq /\ [][NextSeq]_vars

\* config.py run again and again with no kill
SpecSeqRun == InitSeq /\ [][NextSeqRun]_vars

(***************************************************************************)
(* Properties                                                              *)
(***************************************************************************)
\* thread t is inside a save_progress call
InSave(t) == spc[t] \notin {"none", "fin"}

\* C1: the recorded stage never moves backward: no step removes a unit from
\* "downloaded" or "converted", or an artifact from "uploaded_files", neither
\* in the record of a running process nor between two complete checkpoint
\* files.
C1_StageNeverMovesBackward ==
    [][/\ (mainpc \notin {"off", "load"} /\ mainpc' # "off" => Includes(progress', progress))
       /\ (file.st = "ok" /\ file'.st = "ok" => Includes(file'.rec, file.rec))]_vars

\* C2: a unit is in "converted", or about to be recorded there, only with
\* every artifact of its retained series in "uploaded_files"; a step deletes
\* a staging directory only in that case; the step of a worker that ends a
\* loop in which a conversion or an upload failed changes neither "converted"
\* nor the staging directory; and a listed unit that is not converted is
\* selected again by the next run.
C2_ConvertedOnlyWhenAllUploaded ==
    /\ [](/\ \A u \in progress.converted : ArtifactsOf(u) \subseteq progress.uploaded_files
          /\ \A c \in AllC : cpc[c] \in {"rec_conv", "sav_conv"}
                => ArtifactsOf(citem[c]) \subseteq progress.uploaded_files
          /\ \A u \in SeqToSet(listing) : u \notin progress.converted
                => u \in SeqToSet(to_download) \cup SeqToSet(to_convert))
    /\ [][/\ \A u \in Units : dicom[u] # "absent" /\ dicom'[u] = "absent"
                => ArtifactsOf(u) \subseteq progress.uploaded_files
          /\ \A c \in AllC : cpc[c] = "finish" /\ ~cok[c] /\ cpc'[c] = "get"
                => progress' = progress /\ dicom' = dicom]_vars

\* a unit was recorded as converted and its staging directory deleted
C2_Witness ==
    /\ "u1" \in progress.converted /\ dicom["u1"] = "absent"
    /\ \E c \in AllC : cpc[c] = "sav_conv"

\* C5: the checkpoint file never holds a partially written record
C5_CheckpointNeverPartial == file.st # "corrupt"

\* C10: every execution of save_progress runs with progress_lock held, so
\* that no two executions of save_progress overlap in time
C10_NoOverlap ==
    \A t1, t2 \in Threads : InSave(t1) /\ InSave(t2) => t1 = t2

\* C4: publish of one artifact. A worker or the recovery loop records an
\* artifact after its upload only when the upload put the file at the
\* destination, and the local file is deleted only once the name is recorded;
\* the step in which an upload fails leaves the local file and the whole
\* progress record as they were, and the unit of a failed upload is not
\* recorded as converted by that worker.
C4_PublishOneArtifact ==
    /\ [](/\ \A c \in AllC : cpc[c] \in {"rec_up", "sav_up", "remove"}
                => remote[CurArt(c)] # "absent"
          /\ \A c \in AllC : cpc[c] \in {"sav_up", "remove"}
                => CurArt(c) \in progress.uploaded_files
          /\ mainpc = "rec_save" => rec_cur \in progress.uploaded_files)
    /\ [][/\ \A a \in Artifacts : nifti[a] # "absent" /\ nifti'[a] = "absent"
                => a \in progress.uploaded_files /\ remote[a] # "absent"
          /\ \A c \in AllC : cpc[c] = "remove" /\ cpc'[c] = "loop"
                => nifti'[CurArt(c)] = "absent"
          /\ \A c \in AllC : cpc[c] = "upload" /\ cpc'[c] \in {"finish", "get"}
                => /\ nifti' = nifti /\ progress' = progress /\ remote' = remote
                   /\ (cpc'[c] = "finish" => ~cok'[c])
          /\ mainpc = "rec_upload" /\ mainpc' = "rec_save" => remote'[rec_cur] # "absent"
          /\ mainpc = "rec_upload" /\ mainpc' = "rec_remove"
                => nifti' = nifti /\ progress' = progress /\ remote' = remote
          /\ mainpc = "rec_remove" /\ mainpc' = "recover"
                => nifti'[rec_cur] = (IF rec_cur \in progress.uploaded_files
                                      THEN "absent" ELSE nifti[rec_cur])]_vars

\* a worker has uploaded, recorded and is about to delete a local file, while
\* the local file of an upload that failed earlier is still in place
C4_Witness ==
    \E c \in AllC :
        /\ cpc[c] = "remove" /\ nifti[CurArt(c)] = "complete"
        /\ run_failed
        /\ \E a \in Artifacts : /\ nifti[a] = "complete" /\ remote[a] = "absent"
                                  /\ a \notin progress.uploaded_files

\* C6: after a kill between a successful publish copy and its checkpoint
\* write, the restarted process records the artifact only by a step that
\* follows a new upload of it: a name enters "uploaded_files" only on load,
\* in the upload step of the recovery loop, or in the step after a worker's
\* upload.
C6_RecordedOnlyAfterUpload ==
    [][\A a \in Artifacts :
          a \notin progress.uploaded_files /\ a \in progress'.uploaded_files
          => \/ mainpc = "load"
             \/ mainpc = "rec_upload" /\ rec_cur = a
             \/ \E c \in AllC : cpc[c] = "rec_up" /\ CurArt(c) = a]_vars

\* C7: idempotent resume. While the previous process returned from run()
\* with no failed call, no worker is at a fetch copy, a conversion or an
\* upload, the recovery loop is at no upload, the record in memory is the one
\* that process left, and between processes the checkpoint file holds that
\* record.
C7_IdempotentResume ==
    last.clean =>
        /\ \A w \in AllD : dpc[w] # "copy"
        /\ \A c \in AllC : cpc[c] \notin {"convert", "upload", "rec_up"}
        /\ mainpc # "rec_upload"
        /\ mainpc \notin {"off", "load"} => progress = last.rec
        /\ mainpc = "off" => file = FileVal("ok", last.rec)

\* the second run has loaded the record of a first run that converted every
\* listed unit, and is at the point where it selects the work to do
C7_Witness ==
    /\ last.clean /\ mainpc = "recover" /\ rec_todo = {}
    /\ SeqToSet(listing) = {"u1", "u2"}
    /\ progress.converted = {"u1", "u2"}

\* C8: partial-unit retry. No fetch copy runs for a unit that is recorded as
\* downloaded and still has its directory; no conversion and no upload runs
\* for an artifact recorded in "uploaded_files", in a worker or in the
\* recovery loop; a unit is converted only with its artifacts recorded; and
\* a process that returns with no failed call leaves every listed unit
\* converted, so what was left pending has been retried.
C8_PartialUnitRetry ==
    /\ \A w \in AllD : dpc[w] = "copy"
          => ~(ditem[w] \in progress.downloaded /\ dicom[ditem[w]] = "full")
    /\ \A c \in AllC : cpc[c] \in {"convert", "upload"}
          => CurArt(c) \notin progress.uploaded_files
    /\ mainpc \in {"rec_check", "rec_upload"} => rec_cur \notin progress.uploaded_files
    /\ \A c \in AllC : cpc[c] = "sav_conv"
          => ArtifactsOf(citem[c]) \subseteq progress.uploaded_files
    /\ last.clean => SeqToSet(listing) \subseteq last.rec.converted

\* a later run retries the publish of the second series of u1: the first
\* series is recorded, the unit is downloaded, its directory is in place and
\* the local file of the second series is being uploaded by the recovery loop
C8_Witness ==
    /\ mainpc = "rec_upload" /\ rec_cur = nifti_filename("u1", "s2")
    /\ nifti_filename("u1", "s1") \in progress.uploaded_files
    /\ "u1" \in progress.downloaded /\ "u1" \notin progress.converted
    /\ dicom["u1"] = "full"
    /\ nifti[nifti_filename("u1", "s1")] = "absent"

\* C3: a unit enters "downloaded" only in a step that follows a fetch copy
\* which reported success and left the staging directory of the unit
\* non-empty; the load of the checkpoint file apart, a step that adds a unit
\* to "downloaded" finds files in its directory.
C3_DownloadedOnlyWhenNonEmpty ==
    [][\A u \in Units :
          /\ u \notin progress.downloaded /\ u \in progress'.downloaded
          /\ mainpc # "load" /\ seq_pc # "load"
          => dicom'[u] \in {"partial", "full"}]_vars

\* C9: no two download workers are processing the same unit at the same time
C9_OneWorkerPerUnit ==
    \A w1, w2 \in AllD : w1 # w2 /\ ditem[w1] # NoItem => ditem[w1] # ditem[w2]

\* C11: the stage queues are bounded. Whatever bound is configured, it is at
\* least a queue with room for one unit: neither queue ever holds more than
\* one unit waiting (a sentinel is not a unit).
C11_QueuesBounded ==
    /\ Cardinality({i \in 1..Len(q_download) : q_download[i] # None}) <= 1
    /\ Cardinality({i \in 1..Len(q_convert) : q_convert[i] # None}) <= 1

\* the units waiting in a queue (a sentinel is not a unit)
Waiting(q) == Cardinality({i \in 1..Len(q) : q[i] # None})

\* C12: every dequeued unit is acknowledged exactly once on every path, so
\* that the joins of run() return: the unfinished-task count of each queue is
\* the number of units waiting in it plus the number of units a running
\* worker of that stage is processing.
C12_EveryUnitAcknowledged ==
    /\ unfD = Waiting(q_download)
              + Cardinality({w \in AllD : dpc[w] \in {"copy", "record", "saving"}})
    /\ unfC = Waiting(q_convert)
              + Cardinality({c \in AllC : cpc[c] \notin {"idle", "get", "done"}})

\* no unit stands behind a sentinel in queue q
SentinelsLast(q) == \A i, j \in 1..Len(q) : i < j /\ q[i] = None => q[j] = None

\* C13: shutdown ordering. Once the download sentinels are sent the download
\* queue has drained and no download worker holds a unit; once run() waits
\* for the conversion queue every download worker has stopped; once the
\* conversion sentinels are sent every forwarded unit has been processed and
\* no conversion worker holds one; no unit is ever queued behind a sentinel;
\* and run() returns after the worker stage only with every worker stopped.
C13_ShutdownOrdering ==
    /\ [](/\ mainpc \in {"joinDT", "joinC", "joinCT"}
                => /\ unfD = 0 /\ Waiting(q_download) = 0
                   /\ \A w \in DWorkers : dpc[w] \in {"get", "done"}
          /\ mainpc \in {"joinC", "joinCT"}
                => \A w \in DWorkers : dpc[w] = "done"
          /\ mainpc = "joinCT"
                => /\ unfC = 0 /\ Waiting(q_convert) = 0
                   /\ \A c \in CWorkers : cpc[c] \in {"get", "done"}
          /\ SentinelsLast(q_download) /\ SentinelsLast(q_convert))
    /\ [][mainpc = "joinCT" /\ mainpc' = "off" /\ last'.clean
            => /\ \A w \in DWorkers : dpc[w] = "done"
               /\ \A c \in CWorkers : cpc[c] = "done"]_vars

\* the conversion sentinels are sent after both units were converted; one
\* conversion worker has stopped and the other has yet to take its sentinel
C13_Witness ==
    /\ mainpc = "joinCT"
    /\ progress.converted = {"u1", "u2"}
    /\ \E c1, c2 \in CWorkers : cpc[c1] = "done" /\ cpc[c2] = "get"
    /\ q_convert = <<None>>

\* C14: failure isolation. A failure on one unit does not keep the units
\* after it from being processed: with no kill, a download worker that has
\* served a unit is there for the next one, and the sequential run() does
\* not end while units other than the current one are left in its list.
C14_FailureIsolation ==
    [][/\ \A w \in AllD : dpc'[w] # "dead"
       /\ (seq_pc \notin {"off", "load"} /\ seq_pc' = "off" => Len(seq_todo) <= 1)]_vars

\* C15: no stage is skipped. Every converted unit is a downloaded unit, in
\* the record in memory and in a complete checkpoint file, and every unit in
\* the conversion queue or in the hands of a conversion worker is recorded
\* as downloaded.
C15_NoStageSkipped ==
    /\ progress.converted \subseteq progress.downloaded
    /\ file.st = "ok" => file.rec.converted \subseteq file.rec.downloaded
    /\ \A i \in 1..Len(q_convert) :
          q_convert[i] # None => q_convert[i] \in progress.downloaded
    /\ \A c \in AllC : citem[c] # NoItem => citem[c] \in progress.downloaded

\* a conversion worker records as converted a unit that came to it through
\* the download stage of the same run, while another unit waits for it
C15_Witness ==
    /\ \E c \in AllC : cpc[c] = "sav_conv" /\ citem[c] = "u1"
    /\ progress.converted = {"u1"}
    /\ q_convert = <<"u2">>

\* C16: startup re-validation. When run() fills the queues, a listed unit
\* recorded as downloaded and not as converted whose staging directory is
\* missing or empty is put on the download queue and not on the conversion
\* queue, and a unit recorded as converted is put on neither.
C16_StartupRevalidation ==
    [][mainpc = "recover" /\ mainpc' = "joinD" =>
         \A u \in SeqToSet(listing) :
            /\ (/\ u \in progress.downloaded \ progress.converted
                /\ dicom[u] \in {"absent", "empty"})
               => /\ u \in SeqToSet(q_download')
                  /\ u \notin SeqToSet(q_convert')
            /\ u \in progress.converted
               => u \notin SeqToSet(q_download') \cup SeqToSet(q_convert')]_vars

(***************************************************************************)
(* conversor.py: the interrupt handler, the subprocesses and the discovery *)
(***************************************************************************)
\* interrupt signals one process is sent at most
MaxSignals == 3

\* lines the longest remote listing delivers
MaxListed == 11

\* list_dicomdirs saves the cache at every CACHE_EVERY-th new entry
CACHE_EVERY == 10

\* a line of rclone lsf --dirs-only: the path of a directory, numbered from 1,
\* followed by "/"; the path numbered 0 is the empty string
Line(n) == [name |-> n, slash |-> TRUE]
Blank == [name |-> 0, slash |-> FALSE]

\* line.strip().rstrip("/")
rstrip(line) == line.name

\* what the remote may list: nothing, two directories with a blank line and a
\* repeated line, or MaxListed directories
Listings ==
    {<<>>,
     <<Line(1), Blank, Line(1), Line(2)>>,
     [i \in 1..MaxListed |-> Line(i)]}

\* load_dicomdirs_cache(): the list and the flag of the file, ([], False)
\* without one
load_dicomdirs_cache ==
    IF cache.exists THEN <<cache.dicomdirs, cache.complete>> ELSE <<<<>>, FALSE>>

\* save_dicomdirs_cache(dicomdirs, complete)
save_dicomdirs_cache(dirs, complete) ==
    cache' = [exists |-> TRUE, dicomdirs |-> dirs, complete |-> complete]

\* the variables of the pipeline that these steps leave alone
IntFrame ==
    UNCHANGED <<tmp, dicom, nifti, remote, config, faults, iofail, mainv, queues, dwork, cwork,
                lock, spc, hpc, hist, seqv, asmv>>

\* the process runs and no handler frame is on top of the main thread
MainRuns == exit_code = "none" /\ hframes = <<>>

\* run() up to signal.signal: the progress is loaded and saved, the handler
\* and its flag are set up; nothing is left of an earlier process
IntStart ==
    /\ ipc \in {"off", "ended"} \/ exit_code # "none"
    /\ progress' = load_progress
    /\ file' = FileVal("ok", load_progress)
    /\ shutdown_in_progress' = [flag |-> FALSE, count |-> 0]
    /\ active_processes' = {}
    /\ active_processes_lock' = "free"
    /\ procs' = [k \in Procs |-> "none"]
    /\ tpc' = [k \in Transfers |-> "idle"]
    /\ hframes' = <<>>
    /\ exit_code' = "none"
    /\ at_signal' = {}
    /\ ipc' = "recover"
    /\ force_refresh' \in BOOLEAN
    /\ stdout' = <<>>
    /\ cached_dirs' = <<>>
    /\ dicomdirs' = <<>>
    /\ lsf_output' = <<>>
    /\ snapshot' = EmptyProgress
    /\ UNCHANGED <<cache, listing>>
    /\ IntFrame

\* the startup recovery: with no local .nii.gz file the loop is empty; else,
\* for a file that is neither recorded nor found at the destination, rclone()
\* starts the copy with subprocess.Popen
RecoverBegin ==
    /\ MainRuns
    /\ ipc = "recover"
    /\ \/ ipc' = "list" /\ UNCHANGED procs
       \/ ipc' = "rec_lock" /\ procs' = [procs EXCEPT !["recovery"] = "running"]
    /\ UNCHANGED <<progress, file, snapshot, listing, shutdown_in_progress, active_processes,
                   active_processes_lock, tpc, hframes, exit_code, at_signal, force_refresh,
                   stdout, cached_dirs, dicomdirs, cache, lsf_output>>
    /\ IntFrame

\* rclone() on the main thread enters "with active_processes_lock", before
\* the append and again in the finally clause once communicate() has returned
RecoverLock ==
    /\ MainRuns
    /\ \/ ipc = "rec_lock" /\ ipc' = "rec_append"
       \/ ipc = "rec_wait" /\ procs["recovery"] \in {"ok", "failed", "killed"} /\ ipc' = "rec_remove"
    /\ active_processes_lock = "free"
    /\ active_processes_lock' = "main"
    /\ UNCHANGED <<progress, file, snapshot, listing, shutdown_in_progress, active_processes,
                   procs, tpc, hframes, exit_code, at_signal, force_refresh, stdout, cached_dirs,
                   dicomdirs, cache, lsf_output>>
    /\ IntFrame

\* active_processes.append(process) and the lock is released
RecoverAppend ==
    /\ MainRuns
    /\ ipc = "rec_append"
    /\ active_processes' = active_processes \cup {"recovery"}
    /\ active_processes_lock' = "free"
    /\ ipc' = "rec_wait"
    /\ UNCHANGED <<progress, file, snapshot, listing, shutdown_in_progress, procs, tpc, hframes,
                   exit_code, at_signal, force_refresh, stdout, cached_dirs, dicomdirs, cache,
                   lsf_output>>
    /\ IntFrame

\* active_processes.remove(process) and the lock is released; after a copy
\* that succeeded the name is appended to uploaded_files and the progress
\* saved; run() goes on to list_dicomdirs
RecoverRemoved ==
    /\ MainRuns
    /\ ipc = "rec_remove"
    /\ active_processes' = active_processes \ {"recovery"}
    /\ active_processes_lock' = "free"
    /\ progress' = IF procs["recovery"] = "ok"
                   THEN [progress EXCEPT !.uploaded_files = @ \cup {nifti_filename("u1", "s1")}]
                   ELSE progress
    /\ file' = IF procs["recovery"] = "ok" THEN FileVal("ok", progress') ELSE file
    /\ procs' = [procs EXCEPT !["recovery"] = "none"]
    /\ ipc' = "list"
    /\ UNCHANGED <<snapshot, listing, shutdown_in_progress, tpc, hframes, exit_code, at_signal,
                   force_refresh, stdout, cached_dirs, dicomdirs, cache, lsf_output>>
    /\ IntFrame

\* list_dicomdirs(force_refresh) up to the loop over process.stdout: the
\* cache is loaded; a forced refresh empties cached_dirs; a complete cache
\* with entries is returned; else the listing subprocess is started
ListBegin ==
    /\ MainRuns
    /\ ipc = "list"
    /\ LET loaded == load_dicomdirs_cache IN
         IF force_refresh
         THEN /\ cached_dirs' = <<>>
              /\ procs' = [procs EXCEPT !["listing"] = "running"]
              /\ stdout' \in Listings
              /\ lsf_output' = stdout'
              /\ ipc' = "lines"
              /\ UNCHANGED listing
         ELSE IF loaded[2] /\ loaded[1] # <<>>
         THEN /\ listing' = loaded[1]
              /\ ipc' = "work"
              /\ UNCHANGED <<cached_dirs, procs, stdout, lsf_output>>
         ELSE /\ cached_dirs' = loaded[1]
              /\ procs' = [procs EXCEPT !["listing"] = "running"]
              /\ stdout' \in Listings
              /\ lsf_output' = stdout'
              /\ ipc' = "lines"
              /\ UNCHANGED listing
    /\ dicomdirs' = <<>>
    /\ UNCHANGED <<progress, file, snapshot, shutdown_in_progress, active_processes,
                   active_processes_lock, tpc, hframes, exit_code, at_signal, force_refresh,
                   cache>>
    /\ IntFrame

\* the loop turn with seen = set() instead of set(cached_dirs)
C21_ListLineForgetsCache ==
    /\ MainRuns
    /\ ipc = "lines"
    /\ stdout # <<>>
    /\ stdout' = Tail(stdout)
    /\ LET dicomdir == rstrip(Head(stdout))
           seen == SeqToSet(dicomdirs)
       IN  IF dicomdir # 0 /\ dicomdir \notin seen
           THEN /\ dicomdirs' = Append(dicomdirs, dicomdir)
                /\ IF Len(dicomdirs') % CACHE_EVERY = 0
                   THEN save_dicomdirs_cache(cached_dirs \o dicomdirs', FALSE)
                   ELSE UNCHANGED cache
           ELSE UNCHANGED <<dicomdirs, cache>>
    /\ UNCHANGED <<progress, file, snapshot, listing, shutdown_in_progress, active_processes,
                   active_processes_lock, procs, tpc, hframes, exit_code, at_signal, ipc,
                   force_refresh, cached_dirs, lsf_output>>
    /\ IntFrame

\* one turn of "for line in process.stdout": a non-empty path not seen before
\* is appended, and at every CACHE_EVERY-th the cache is saved as incomplete
ListLine ==
    /\ MainRuns
    /\ ipc = "lines"
    /\ stdout # <<>>
    /\ stdout' = Tail(stdout)
    /\ LET dicomdir == rstrip(Head(stdout))
           seen == SeqToSet(cached_dirs) \cup SeqToSet(dicomdirs)
       IN  IF dicomdir # 0 /\ dicomdir \notin seen
           THEN /\ dicomdirs' = Append(dicomdirs, dicomdir)
                /\ IF Len(dicomdirs') % CACHE_EVERY = 0
                   THEN save_dicomdirs_cache(cached_dirs \o dicomdirs', FALSE)
                   ELSE UNCHANGED cache
           ELSE UNCHANGED <<dicomdirs, cache>>
    /\ UNCHANGED <<progress, file, snapshot, listing, shutdown_in_progress, active_processes,
                   active_processes_lock, procs, tpc, hframes, exit_code, at_signal, ipc,
                   force_refresh, cached_dirs, lsf_output>>
    /\ IntFrame

\* the end of the listing with the cache saved as complete whatever the
\* return code
C30_ListEndAlwaysComplete ==
    /\ MainRuns
    /\ ipc = "lines"
    /\ stdout = <<>>
    /\ \E rc \in {"ok", "failed"} :
         /\ procs' = [procs EXCEPT !["listing"] = rc]
         /\ save_dicomdirs_cache(cached_dirs \o dicomdirs, TRUE)
         /\ IF rc = "ok"
            THEN listing' = cached_dirs \o dicomdirs /\ ipc' = "work"
            ELSE UNCHANGED listing /\ ipc' = "ended"
    /\ cached_dirs' = <<>>
    /\ dicomdirs' = <<>>
    /\ lsf_output' = <<>>
    /\ UNCHANGED <<progress, file, snapshot, shutdown_in_progress, active_processes,
                   active_processes_lock, tpc, hframes, exit_code, at_signal, force_refresh,
                   stdout>>
    /\ IntFrame

\* end of the output and process.wait(): with returncode 0 the cache is saved
\* as complete and the list returned, and run() goes on to start the workers;
\* else the cache is saved as incomplete and the exception leaves run(); the
\* local lists are gone with the call
ListEnd ==
    /\ MainRuns
    /\ ipc = "lines"
    /\ stdout = <<>>
    /\ \E rc \in {"ok", "failed"} :
         /\ procs' = [procs EXCEPT !["listing"] = rc]
         /\ save_dicomdirs_cache(cached_dirs \o dicomdirs, rc = "ok")
         /\ IF rc = "ok"
            THEN listing' = cached_dirs \o dicomdirs /\ ipc' = "work"
            ELSE UNCHANGED listing /\ ipc' = "ended"
    /\ cached_dirs' = <<>>
    /\ dicomdirs' = <<>>
    /\ lsf_output' = <<>>
    /\ UNCHANGED <<progress, file, snapshot, shutdown_in_progress, active_processes,
                   active_processes_lock, tpc, hframes, exit_code, at_signal, force_refresh,
                   stdout>>
    /\ IntFrame

\* the workers are through with the unit and run() returns
IntReturn ==
    /\ MainRuns
    /\ ipc = "work"
    /\ tpc["fetch"] = "done"
    /\ "u1" \in progress.downloaded => tpc["exists"] = "done" /\ tpc["upload"] = "done"
    /\ ipc' = "ended"
    /\ UNCHANGED <<progress, file, snapshot, listing, shutdown_in_progress, active_processes,
                   active_processes_lock, procs, tpc, hframes, exit_code, at_signal,
                   force_refresh, stdout, cached_dirs, dicomdirs, cache, lsf_output>>
    /\ IntFrame

\* a worker thread is running
WorkerRuns == exit_code = "none" /\ ipc = "work"

\* what a step of a worker leaves alone
WorkerFrame ==
    /\ UNCHANGED <<snapshot, listing, shutdown_in_progress, hframes, exit_code, at_signal, ipc,
                   force_refresh, stdout, cached_dirs, dicomdirs, cache, lsf_output>>
    /\ IntFrame

\* rclone(cmd): subprocess.Popen; the download worker copies the unit, the
\* conversion worker its artifact once check_remote_file_exists has returned
rclone_Popen(k) ==
    /\ WorkerRuns
    /\ k \in {"fetch", "upload"}
    /\ tpc[k] = "idle"
    /\ k = "upload" => tpc["exists"] = "done"
    /\ procs' = [procs EXCEPT ![k] = "running"]
    /\ tpc' = [tpc EXCEPT ![k] = "register"]
    /\ UNCHANGED <<progress, file, active_processes, active_processes_lock>>
    /\ WorkerFrame

\* with active_processes_lock: active_processes.append(process)
rclone_register(k) ==
    /\ WorkerRuns
    /\ tpc[k] = "register"
    /\ active_processes_lock = "free"
    /\ active_processes' = active_processes \cup {k}
    /\ tpc' = [tpc EXCEPT ![k] = "communicate"]
    /\ UNCHANGED <<progress, file, active_processes_lock, procs>>
    /\ WorkerFrame

\* process.communicate() returns and the finally clause, with
\* active_processes_lock, removes the process; a non-zero returncode raises
rclone_finally(k) ==
    /\ WorkerRuns
    /\ tpc[k] = "communicate"
    /\ procs[k] \in {"ok", "failed", "killed"}
    /\ active_processes_lock = "free"
    /\ active_processes' = active_processes \ {k}
    /\ tpc' = [tpc EXCEPT ![k] = IF procs[k] = "ok" THEN "record" ELSE "done"]
    /\ UNCHANGED <<progress, file, active_processes_lock, procs>>
    /\ WorkerFrame

\* with progress_lock: the unit or the artifact is appended and the progress saved
TransferRecord(k) ==
    /\ WorkerRuns
    /\ tpc[k] = "record"
    /\ progress' = IF k = "fetch"
                   THEN [progress EXCEPT !.downloaded = @ \cup {"u1"}]
                   ELSE [progress EXCEPT !.uploaded_files = @ \cup {nifti_filename("u1", "s1")}]
    /\ file' = FileVal("ok", progress')
    /\ tpc' = [tpc EXCEPT ![k] = "done"]
    /\ UNCHANGED <<active_processes, active_processes_lock, procs>>
    /\ WorkerFrame

\* check_remote_file_exists for the artifact of the downloaded unit:
\* subprocess.run starts rclone lsf
ExistsRun ==
    /\ WorkerRuns
    /\ tpc["exists"] = "idle"
    /\ tpc["fetch"] = "done"
    /\ "u1" \in progress.downloaded
    /\ procs' = [procs EXCEPT !["exists"] = "running"]
    /\ tpc' = [tpc EXCEPT !["exists"] = "run"]
    /\ UNCHANGED <<progress, file, active_processes, active_processes_lock>>
    /\ WorkerFrame

\* subprocess.run returns; the artifact was not found
ExistsReturn ==
    /\ WorkerRuns
    /\ tpc["exists"] = "run"
    /\ procs["exists"] \in {"ok", "failed"}
    /\ tpc' = [tpc EXCEPT !["exists"] = "done"]
    /\ UNCHANGED <<progress, file, active_processes, active_processes_lock, procs>>
    /\ WorkerFrame

\* a transfer subprocess ends by itself, or upon the SIGTERM it was sent
ProcExits(k) ==
    /\ exit_code = "none"
    /\ k \in Procs \ {"listing"}
    /\ \/ procs[k] = "running" /\ \E rc \in {"ok", "failed"} : procs' = [procs EXCEPT ![k] = rc]
       \/ procs[k] = "terminating" /\ procs' = [procs EXCEPT ![k] = "failed"]
    /\ UNCHANGED <<progress, file, active_processes, active_processes_lock, tpc>>
    /\ WorkerFrame

\* signals counted so far or waiting to be counted
Signals ==
    shutdown_in_progress.count + Cardinality({i \in 1..Len(hframes) : hframes[i] = "count"})

\* what a step of the handler leaves alone
HandlerFrame ==
    /\ UNCHANGED <<progress, listing, tpc, at_signal, ipc, force_refresh, stdout, cached_dirs,
                   dicomdirs, cache, lsf_output>>
    /\ IntFrame

\* SIGINT or SIGTERM arrives once signal.signal has installed the handler:
\* signal_handler is entered on the main thread, on top of what runs there
SigDeliver ==
    /\ exit_code = "none"
    /\ ipc \notin {"off", "ended"}
    /\ Signals < MaxSignals
    /\ hframes' = <<"count">> \o hframes
    /\ at_signal' = IF Signals = 0 THEN {k \in Procs : procs[k] = "running"} ELSE at_signal
    /\ UNCHANGED <<progress, file, snapshot, listing, shutdown_in_progress, active_processes,
                   active_processes_lock, procs, tpc, exit_code, ipc, force_refresh, stdout,
                   cached_dirs, dicomdirs, cache, lsf_output>>
    /\ IntFrame

\* the innermost frame of the handler is at pc
HandlerAt(pc) == exit_code = "none" /\ hframes # <<>> /\ Head(hframes) = pc

HandlerGoes(pc) == hframes' = <<pc>> \o Tail(hframes)

\* shutdown_in_progress["count"] += 1
SigCount ==
    /\ HandlerAt("count")
    /\ shutdown_in_progress' = [shutdown_in_progress EXCEPT !.count = @ + 1]
    /\ HandlerGoes("guard")
    /\ UNCHANGED <<file, snapshot, active_processes, active_processes_lock, procs, exit_code>>
    /\ HandlerFrame

\* count > 2: os._exit(1); else with the flag set the handler warns and
\* returns; else it sets the flag and begins the shutdown
SigGuard ==
    /\ HandlerAt("guard")
    /\ IF shutdown_in_progress.count > 2
       THEN /\ exit_code' = "1"
            /\ UNCHANGED <<hframes, shutdown_in_progress>>
       ELSE IF shutdown_in_progress.flag
       THEN /\ hframes' = Tail(hframes)
            /\ UNCHANGED <<exit_code, shutdown_in_progress>>
       ELSE /\ shutdown_in_progress' = [shutdown_in_progress EXCEPT !.flag = TRUE]
            /\ HandlerGoes("terminate")
            /\ UNCHANGED exit_code
    /\ UNCHANGED <<file, snapshot, active_processes, active_processes_lock, procs>>
    /\ HandlerFrame

\* with active_processes_lock: proc.terminate() for every registered process,
\* then time.sleep(1); with an empty registry the block is passed over
SigTerminate ==
    /\ HandlerAt("terminate")
    /\ active_processes_lock = "free"
    /\ IF active_processes = {}
       THEN /\ HandlerGoes("snapshot")
            /\ UNCHANGED <<procs, active_processes_lock>>
       ELSE /\ procs' = [k \in Procs |-> IF k \in active_processes /\ procs[k] = "running"
                                         THEN "terminating" ELSE procs[k]]
            /\ active_processes_lock' = "handler"
            /\ HandlerGoes("sleep")
    /\ UNCHANGED <<file, snapshot, shutdown_in_progress, active_processes, exit_code>>
    /\ HandlerFrame

\* after the sleep: proc.kill() for every registered process whose poll() is
\* None; the lock is released
SigKill ==
    /\ HandlerAt("sleep")
    /\ procs' = [k \in Procs |-> IF k \in active_processes /\ procs[k] \in {"running", "terminating"}
                                 THEN "killed" ELSE procs[k]]
    /\ active_processes_lock' = "free"
    /\ HandlerGoes("snapshot")
    /\ UNCHANGED <<file, snapshot, shutdown_in_progress, active_processes, exit_code>>
    /\ HandlerFrame

\* with progress_lock: the lists of progress are copied
SigSnapshot ==
    /\ HandlerAt("snapshot")
    /\ snapshot' = progress
    /\ HandlerGoes("save")
    /\ UNCHANGED <<file, shutdown_in_progress, active_processes, active_processes_lock, procs,
                   exit_code>>
    /\ HandlerFrame

\* save_progress(progress_snapshot)
SigSave ==
    /\ HandlerAt("save")
    /\ file' = FileVal("ok", snapshot)
    /\ HandlerGoes("exit")
    /\ UNCHANGED <<snapshot, shutdown_in_progress, active_processes, active_processes_lock, procs,
                   exit_code>>
    /\ HandlerFrame

\* os._exit(0)
SigExit ==
    /\ HandlerAt("exit")
    /\ exit_code' = "0"
    /\ UNCHANGED <<file, snapshot, shutdown_in_progress, active_processes, active_processes_lock,
                   procs, hframes>>
    /\ HandlerFrame

InitInt ==
    /\ VolatileInit
    /\ file = Absent
    /\ tmp = Absent
    /\ dicom = [u \in Units |-> "absent"]
    /\ nifti = [a \in Artifacts |-> "absent"]
    /\ remote = [a \in Artifacts |-> "absent"]
    /\ listing = <<>>
    /\ config = [download_threads |-> 1, conversion_threads |-> 1]
    /\ faults = {"signal"}
    /\ iofail = 0
    /\ last = NotClean
    /\ seq_pc = "off"
    /\ seq_todo = <<>>
    /\ IntOff
    /\ AsmOff

NextInt ==
    \/ IntStart
    \/ RecoverBegin
    \/ RecoverLock
    \/ RecoverAppend
    \/ RecoverRemoved
    \/ ListBegin
    \/ ListLine
    \/ ListEnd
    \/ IntReturn
    \/ \E k \in Transfers : rclone_Popen(k)
    \/ \E k \in Transfers : rclone_register(k)
    \/ \E k \in Transfers : rclone_finally(k)
    \/ \E k \in Transfers : TransferRecord(k)
    \/ ExistsRun
    \/ ExistsReturn
    \/ \E k \in Procs : ProcExits(k)
    \/ SigDeliver
    \/ SigCount
    \/ SigGuard
    \/ SigTerminate
    \/ SigKill
    \/ SigSnapshot
    \/ SigSave
    \/ SigExit

SpecInt == InitInt /\ [][NextInt]_vars

\* the threads are scheduled: the main thread with its handler frames, and the
\* workers; a subprocess that is running ends, by itself or upon its signal
IntFairness ==
    /\ WF_vars(SigCount \/ SigGuard \/ SigTerminate \/ SigKill \/ SigSnapshot \/ SigSave \/ SigExit)
    /\ WF_vars(RecoverBegin \/ RecoverLock \/ RecoverAppend \/ RecoverRemoved
               \/ ListBegin \/ ListLine \/ ListEnd \/ IntReturn)
    /\ WF_vars(\E k \in Transfers :
                  rclone_Popen(k) \/ rclone_register(k) \/ rclone_finally(k) \/ TransferRecord(k))
    /\ WF_vars(ExistsRun \/ ExistsReturn)
    /\ WF_vars(\E k \in Procs : ProcExits(k))

SpecIntFair == SpecInt /\ IntFairness

\* C17: on the first interrupt signal every transfer subprocess in flight at
\* that moment is terminated, then killed if still running, and the current
\* checkpoint state is on disk when the process exits with status 0: at
\* os._exit(0) none of those subprocesses runs and PROGRESS_FILE holds the
\* progress.
C17_InterruptStopsTransfers ==
    [][exit_code = "none" /\ exit_code' = "0" =>
         /\ \A k \in at_signal : procs'[k] \in {"ok", "failed", "killed"}
         /\ file' = FileVal("ok", progress')]_vars

\* C18: a second interrupt signal during the shutdown begun by the first ends
\* the process at once: the handler frame that has counted the second signal
\* with the flag set does not return, it exits.
C18_SecondInterruptExits ==
    [][(/\ HandlerAt("guard")
        /\ shutdown_in_progress.count = 2
        /\ shutdown_in_progress.flag
        /\ hframes' # <<"count">> \o hframes
        /\ <<hframes, exit_code>>' # <<hframes, exit_code>>)
       => exit_code' # "none"]_vars

\* C19: when the shutdown begun by an interrupt stops the process during the
\* remote discovery, the discovery cache exists, is marked incomplete and
\* holds every entry enumerated so far.
C19_DiscoveryFlushedOnInterrupt ==
    [][exit_code = "none" /\ exit_code' = "0" /\ ipc = "lines" /\ dicomdirs # <<>> =>
         /\ cache'.exists
         /\ ~cache'.complete
         /\ SeqToSet(dicomdirs) \subseteq SeqToSet(cache'.dicomdirs)]_vars

\* C20: discovery short-circuit. With a cache file marked complete and no
\* forced refresh list_dicomdirs returns the cached list, empty or not, and
\* starts no listing subprocess; with a forced refresh it drops the cached
\* list and starts the listing.
C20_DiscoveryShortCircuit ==
    [][ipc = "list" /\ ipc' # "list" /\ exit_code' = "none" =>
         /\ (~force_refresh /\ cache.exists /\ cache.complete)
            => listing' = cache.dicomdirs /\ procs'["listing"] = "none" /\ ipc' = "work"
         /\ force_refresh
            => cached_dirs' = <<>> /\ procs'["listing"] = "running" /\ ipc' = "lines"]_vars

\* the place of the first line of L that names d
FirstAt(L, d) ==
    CHOOSE i \in 1..Len(L) : rstrip(L[i]) = d /\ \A j \in 1..(i - 1) : rstrip(L[j]) # d

\* R is C followed by the paths of L that are not in C, each once, in the
\* order L first names them
Resumed(C, L, R) ==
    /\ Len(R) >= Len(C)
    /\ SubSeq(R, 1, Len(C)) = C
    /\ SeqToSet(R) = SeqToSet(C) \cup ({rstrip(L[i]) : i \in 1..Len(L)} \ {0})
    /\ \A i, j \in 1..Len(R) : i < j => R[i] # R[j]
    /\ \A i, j \in (Len(C) + 1)..Len(R) : i < j => FirstAt(L, R[i]) < FirstAt(L, R[j])

\* C21: discovery resume. With the loaded cache C and the remote listing L,
\* list_dicomdirs returns C followed by the entries of L that are not in C, in
\* listing order and without a repeated entry, and every cache write during
\* or after the enumeration begins with all of C.
C21_DiscoveryResume ==
    [][ipc = "lines" =>
         /\ ipc' = "work" => Resumed(cached_dirs, lsf_output, listing')
         /\ cache' # cache =>
               /\ Len(cache'.dicomdirs) >= Len(cached_dirs)
               /\ SubSeq(cache'.dicomdirs, 1, Len(cached_dirs)) = cached_dirs]_vars

\* a resumed enumeration has read the whole listing: ten entries came from
\* the incomplete cache and the rest is new
C21_Witness ==
    /\ ipc = "lines"
    /\ ~force_refresh
    /\ Len(cached_dirs) = CACHE_EVERY
    /\ dicomdirs # <<>>
    /\ stdout = <<>>
    /\ Len(lsf_output) = MaxListed

\* the artifact names of the series of a unit that have fewer than MIN_SLICES files
BelowMinimum == {nifti_filename(u, s) : u \in Units, s \in {"s1", "s2", "s3"}} \cap
                {a \in Artifacts : NumFiles(a[1], a[2]) < MIN_SLICES}

\* C22: minimum-count rejection. For a series with fewer files than the
\* minimum no worker is ever at a conversion, check or upload step, no local
\* or remote artifact exists, and its name is in no progress record, in
\* memory or on disk.
C22_MinimumCountRejection ==
    /\ \A a \in BelowMinimum :
          /\ nifti[a] = "absent"
          /\ remote[a] = "absent"
          /\ a \notin progress.uploaded_files
          /\ a \notin file.rec.uploaded_files
          /\ a \notin snapshot.uploaded_files
    /\ \A c \in AllC : cser[c] # <<>> => CurArt(c) \notin BelowMinimum

\* a unit with a series below the minimum was processed completely: its
\* retained series are published and it is recorded as converted
C22_Witness ==
    /\ "u1" \in progress.converted
    /\ \A a \in ArtifactsOf("u1") : remote[a] = "complete"
    /\ \E a \in BelowMinimum : a[1] = "u1"

(***************************************************************************)
(* conversor.py: parse_dicomdir and the series handed to convert_series    *)
(***************************************************************************)
\* records in the longest DICOMDIR
MaxInstances == 3

\* the (Rows, Columns) pairs and the through-plane coordinates of the images
Dims == {<<512, 512>>, <<256, 256>>}
Coords == 1..3

\* a directory record: an image of a CT series, or one record of another
\* type, or one image of another modality
Records ==
    [type : {"IMAGE"}, modality : {"CT"}, uid : UIDs, dims : Dims, z : Coords]
    \cup {[type |-> "SERIES", modality |-> "CT", uid |-> "s1", dims |-> <<512, 512>>, z |-> 1],
          [type |-> "IMAGE", modality |-> "US", uid |-> "s1", dims |-> <<512, 512>>, z |-> 1]}

\* the configured minimum of the runs examined
MinSlicesChoices == {1, 2}

\* what these steps leave alone
AsmFrame ==
    UNCHANGED <<progress, disk, mainv, queues, dwork, cwork, lock, spc, handv, hist, seqv, intv>>

\* one turn of "for inst in fs": a record that is not an IMAGE, or whose
\* Modality is not CT or MR, is passed over; else its path is appended to the
\* list of its SeriesInstanceUID
AsmRead ==
    /\ apc = "parse"
    /\ fs_done < Len(fileset)
    /\ fs_done' = fs_done + 1
    /\ LET inst == fileset[fs_done + 1] IN
         series' = IF inst.type = "IMAGE" /\ inst.modality \in {"CT", "MR"}
                   THEN [series EXCEPT ![inst.uid] = Append(@, fs_done + 1)]
                   ELSE series
    /\ UNCHANGED <<min_slices, fileset, asm_todo, handed, apc>>
    /\ AsmFrame

\* the series of the dict with len(files) >= MIN_SLICES, in the order of the
\* dict: that of the first file of each
valid_uids ==
    LET kept == {u \in UIDs : series[u] # <<>> /\ Len(series[u]) >= min_slices}
        first == CHOOSE u \in kept : \A v \in kept : series[u][1] <= series[v][1]
    IN  IF kept = {} THEN <<>>
        ELSE IF Cardinality(kept) = 1 THEN <<first>>
        ELSE <<first, CHOOSE v \in kept : v # first>>

\* parse_dicomdir returns and conversion_worker filters the valid series
AsmFilter ==
    /\ apc = "parse"
    /\ fs_done = Len(fileset)
    /\ asm_todo' = valid_uids
    /\ apc' = "convert"
    /\ UNCHANGED <<min_slices, fileset, fs_done, series, handed>>
    /\ AsmFrame

\* convert_series(files, out) for the next valid series:
\* reader.SetFileNames(files) with the list parse_dicomdir built
AsmConvert ==
    /\ apc = "convert"
    /\ asm_todo # <<>>
    /\ handed' = Append(handed, [uid |-> Head(asm_todo), files |-> series[Head(asm_todo)]])
    /\ asm_todo' = Tail(asm_todo)
    /\ UNCHANGED <<min_slices, fileset, fs_done, series, apc>>
    /\ AsmFrame

\* the loop over the valid series ends
AsmDone ==
    /\ apc = "convert"
    /\ asm_todo = <<>>
    /\ apc' = "done"
    /\ UNCHANGED <<min_slices, fileset, fs_done, series, asm_todo, handed>>
    /\ AsmFrame

InitAsm ==
    /\ VolatileInit
    /\ file = Absent
    /\ tmp = Absent
    /\ dicom = [u \in Units |-> "absent"]
    /\ nifti = [a \in Artifacts |-> "absent"]
    /\ remote = [a \in Artifacts |-> "absent"]
    /\ listing = <<>>
    /\ config = [download_threads |-> 1, conversion_threads |-> 1]
    /\ faults = {}
    /\ iofail = 0
    /\ last = NotClean
    /\ seq_pc = "off"
    /\ seq_todo = <<>>
    /\ IntVolatile
    /\ cache = NoCache
    /\ min_slices \in MinSlicesChoices
    /\ \E n \in 0..MaxInstances : fileset \in [1..n -> Records]
    /\ fs_done = 0
    /\ series = [u \in UIDs |-> <<>>]
    /\ asm_todo = <<>>
    /\ handed = <<>>
    /\ apc = "parse"

NextAsm ==
    \/ AsmRead
    \/ AsmFilter
    \/ AsmConvert
    \/ AsmDone

SpecAsm == InitAsm /\ [][NextAsm]_vars

\* the images of series u in the DICOMDIR, by record index
ImagesOf(u) ==
    {i \in 1..Len(fileset) : /\ fileset[i].type = "IMAGE"
                             /\ fileset[i].modality \in {"CT", "MR"}
                             /\ fileset[i].uid = u}

\* the images of series u whose (Rows, Columns) pair is d
WithDims(u, d) == {i \in ImagesOf(u) : fileset[i].dims = d}

\* C23: dimension-consistency filter. The files handed to the codec for a
\* series all share one (rows, columns) pair; when one pair is the most
\* frequent of the series they are exactly the images of that pair, at least
\* the minimum in number.
C23_DimensionConsistency ==
    \A k \in 1..Len(handed) :
       LET files == SeqToSet(handed[k].files)
           u == handed[k].uid IN
       /\ \A i, j \in files : fileset[i].dims = fileset[j].dims
       /\ \A d \in Dims :
             (\A e \in Dims \ {d} : Cardinality(WithDims(u, d)) > Cardinality(WithDims(u, e)))
             => files = WithDims(u, d) /\ Cardinality(files) >= min_slices

\* C24: ordering invariant. The file list handed to the codec is sorted
\* ascending by through-plane coordinate, files of equal coordinate in the
\* order the records were met.
C24_SortedByCoordinate ==
    \A k \in 1..Len(handed) :
       LET files == handed[k].files IN
       \A a, b \in 1..Len(files) :
          a < b => \/ fileset[files[a]].z < fileset[files[b]].z
                   \/ fileset[files[a]].z = fileset[files[b]].z /\ files[a] < files[b]

\* C25: the codec is never invoked for a series whose artifact name is in
\* uploaded_files, whose artifact is at the remote destination or whose
\* artifact file exists locally; and a worker that leaves the existence check
\* for the conversion or the upload has an artifact that is not at the remote
\* destination.
C25_NoNeedlessConversion ==
    [][\A c \in AllC :
         /\ (cpc[c] = "convert" /\ cpc'[c] \in {"upload", "finish"})
            => /\ CurArt(c) \notin progress.uploaded_files
               /\ remote[CurArt(c)] = "absent"
               /\ nifti[CurArt(c)] = "absent"
         /\ (cpc[c] = "check" /\ cpc'[c] \in {"convert", "upload"})
            => remote[CurArt(c)] = "absent"]_vars

\* C26: no artifact is lost. A local artifact file is deleted only when its
\* name is in uploaded_files, and at every instant, between processes as
\* well, an artifact that is at the destination and no longer on the local
\* disk is recorded as uploaded: in the progress of the running process or in
\* the checkpoint file.
C26_NoArtifactLost ==
    /\ [](\A a \in Artifacts :
             nifti[a] = "absent" /\ remote[a] # "absent"
             => \/ mainpc # "off" /\ a \in progress.uploaded_files
                \/ file.st = "ok" /\ a \in file.rec.uploaded_files)
    /\ [][\A a \in Artifacts :
             nifti[a] = "complete" /\ nifti'[a] = "absent" => a \in progress.uploaded_files]_vars

\* C27: every artifact put at the destination is the complete output of a
\* conversion: an upload step, of a worker or of the startup recovery, copies
\* a local file only when it is completely written, and no file at the
\* destination is a partly written one.
C27_OnlyCompleteArtifactsUploaded ==
    /\ [](\A a \in Artifacts : remote[a] \in {"absent", "complete"})
    /\ [][\A a \in Artifacts : remote'[a] # remote[a] => nifti[a] = "complete"]_vars

\* C28: once an interrupt signal has been delivered the process exits: the
\* handler does not wait forever for active_processes_lock or progress_lock.
C28_HandlerReachesExit ==
    (exit_code = "none" /\ hframes # <<>>) ~> (exit_code # "none")

\* the units of which no series passes the filter on the number of files
EmptyUnits == {u \in Units : valid_series(u) = <<>>}

\* C29: a unit without retained series whose parse did not fail is treated as
\* fully processed. No artifact of it ever exists; the worker that leaves the
\* loop over its (zero) series goes on to record it in progress["converted"],
\* and when it records it the staging directory is deleted; a run that finds
\* it in progress["converted"] puts it on neither queue.
C29_EmptyUnitFullyProcessed ==
    /\ [](\A u \in EmptyUnits : \A s \in SeqToSet(SeriesUIDs(u)) :
             /\ nifti[nifti_filename(u, s)] = "absent"
             /\ remote[nifti_filename(u, s)] = "absent")
    /\ [][\A c \in AllC :
            /\ (/\ cpc[c] = "finish" /\ cpc'[c] # "finish" /\ mainpc' # "off"
                /\ citem[c] \in EmptyUnits)
               => cpc'[c] = "rec_conv"
            /\ (/\ cpc[c] = "rec_conv" /\ cpc'[c] = "sav_conv"
                /\ citem[c] \in EmptyUnits)
               => /\ citem[c] \in progress'.converted
                  /\ dicom[citem[c]] = "absent"]_vars
    /\ [][mainpc = "recover" /\ mainpc' = "joinD" =>
            \A u \in EmptyUnits \cap progress.converted :
               u \notin SeqToSet(q_download') \cup SeqToSet(q_convert')]_vars

\* the paths the lines of L name
PathsOf(L) == {rstrip(L[i]) : i \in 1..Len(L)} \ {0}

\* C30: the discovery cache is written with complete = true only when the
\* listing subprocess ended with return code 0 after all its output was read,
\* and then it holds every path of that output; a write during the loop or
\* after a listing error has complete = false; an exit on a signal writes no
\* cache; and list_dicomdirs returns a cached list without listing only when
\* that cache is marked complete.
C30_CompleteOnlyAfterWholeListing ==
    /\ [][cache' # cache =>
            /\ cache'.exists
            /\ cache'.complete
               => /\ ipc = "lines" /\ stdout = <<>>
                  /\ procs'["listing"] = "ok"
                  /\ PathsOf(lsf_output) \subseteq SeqToSet(cache'.dicomdirs)
            /\ (stdout # <<>> \/ procs'["listing"] = "failed") => ~cache'.complete]_vars
    /\ [][procs["listing"] = "running" /\ procs'["listing"] = "failed"
            => cache'.exists /\ ~cache'.complete]_vars
    /\ [][exit_code = "none" /\ exit_code' # "none" => cache' = cache]_vars
    /\ [][ipc = "list" /\ ipc' = "work" =>
            /\ ~force_refresh
            /\ cache.exists /\ cache.complete
            /\ listing' = cache.dicomdirs]_vars

\* a listing of MaxListed directories ended with return code 0, its periodic
\* save is overwritten by the cache marked complete, and run() goes on
C30_Witness ==
    /\ ipc = "work"
    /\ procs["listing"] = "ok"
    /\ cache.exists /\ cache.complete
    /\ Len(cache.dicomdirs) = MaxListed
====
